---- MODULE Spec2Model ----
(***************************************************************************)
(* A model of the client/monitor/tag state machine of dwm (src/dwm.c, the  *)
(* variant with the index-based monitor table and the input mode stack).   *)
(*                                                                         *)
(* The window manager is single threaded: every event handler runs to      *)
(* completion, so one action of the model is one handler of main()'s event *)
(* loop.  The helper functions of the source are operators over a "world"  *)
(* record w (the monitor table, the clients, the selected monitor), so     *)
(* that a handler is the composition of the helpers it calls.              *)
(*                                                                         *)
(* The specifications share the variables:                                 *)
(*   Spec            the event handlers and key commands on up to          *)
(*                   MaxScreens screens;                                   *)
(*   SpecGeom        screens coming and going, with one screen more, so    *)
(*                   that the monitor table grows;                         *)
(*   SpecMode        push_mode, pop_mode and reset_mode in any order;      *)
(*   SpecResize      resize() called twice with the same arguments;        *)
(*   SpecNextValid, SpecCreatemon, SpecScreens                             *)
(*                   next_valid_monitor, createmon and updategeom on the   *)
(*                   tables the window manager builds;                     *)
(*   SpecFullscreen  the fullscreen and floating flags and the border      *)
(*                   width of clients;                                     *)
(*   SpecLayout      tile and monocle arranging one monitor;               *)
(*   SpecHints       updatesizehints followed by applysizehints;           *)
(*   SpecDetachstack detachstack on focus stacks of up to MaxStack clients;*)
(*   SpecKeys        key presses dispatched through the binding tables of  *)
(*                   the input modes;                                      *)
(*   SpecManage      manage for windows with every hint;                   *)
(*   SpecLayoutKeys  toggle_layout and setmfact on one or two monitors;    *)
(*   SpecDrag        movemouse and resizemouse with their inner event loop;*)
(*   SpecUrgent      the urgency flag under activation requests, WM_HINTS  *)
(*                   changes and the handlers that change the focus;       *)
(*   SpecRoundTrip   one client entering and leaving fullscreen with       *)
(*                   configure events in between;                          *)
(*   SpecSelected    manage, unmanage, view, tag, tagmon and focusmon;     *)
(*   SpecTile        tile on window rectangles of small height;            *)
(*   SpecMaster      make_main_client among the focus and tag commands;    *)
(*   SpecDirtomon    dirtomon, one pass of its loop per step.              *)
(*                                                                         *)
(* Not tracked: window contents, X protocol traffic, and, in the event     *)
(* model, client rectangles (arrange() only moves windows).  The windows   *)
(* mapped in Spec and SpecGeom are plain ones: no transient-for hint, no   *)
(* size hints, no dialog type, no fullscreen state.  A window asking to be *)
(* mapped has border width 0.  Xinerama is active and reports at least one *)
(* screen.                                                                 *)
(***************************************************************************)
EXTENDS Integers, Sequences, FiniteSets, TLC

(***************************************************************************)
(* Bounds of the model.                                                    *)
(***************************************************************************)
MaxClients == 2      \* Client structs that may be allocated at one time
MaxWindows == 2      \* distinct X window ids that may ask to be mapped
NumTags    == 2      \* length of tags[] used by the model (config.h has 9)
MaxScreens == 2      \* screens one Xinerama query may report
ScreenW    == 4      \* width of a screen rectangle
ScreenH    == 4      \* height of a screen rectangle
global_bar_height == 1   \* drw.fonts->height + 10, in the units of the screens
RzSpan     == 40     \* side of the monitor window area resize() is tried on
MaxTrail   == 3      \* calls SpecLayout makes on one arrangement
MaxStack   == 3      \* clients on the focus stack SpecDetachstack unlinks from

(***************************************************************************)
(* Program constants.                                                      *)
(***************************************************************************)
mfact             == 55
borderpx          == 2
gap_size          == 6
MODE_STACK_LEN    == 8   \* ArrayLength(mode_stack)
ModeNormal        == 0
ModeQuit          == 1
ModeBrowser       == 2
ModeSurfBrowser   == 3

NoClient == 0            \* the NULL Client pointer
None     == 0            \* the X11 None window

ClientIds == 1..MaxClients
Windows   == 1..MaxWindows

RECURSIVE Pow2(_)
Pow2(n) == IF n = 0 THEN 1 ELSE 2 * Pow2(n - 1)

TagMask == Pow2(NumTags) - 1

RECURSIVE BitAnd(_, _)
BitAnd(a, b) ==
    IF a = 0 \/ b = 0 THEN 0
    ELSE (a % 2) * (b % 2) + 2 * BitAnd(a \div 2, b \div 2)

RECURSIVE BitXor(_, _)
BitXor(a, b) ==
    IF a = 0 THEN b
    ELSE IF b = 0 THEN a
    ELSE ((a + b) % 2) + 2 * BitXor(a \div 2, b \div 2)

\* arguments of view/tag/toggleview/toggletag: zero, every mask over the tags,
\* the first bit outside TagMask, and that bit together with the first tag
TagArgs == 0..(Pow2(NumTags) + 1)

(***************************************************************************)
(* The monitor table.  createmon starts the table with two slots and       *)
(* doubles it; MaxCapacity is the capacity MaxScreens + 1 monitors need    *)
(* (SpecGeom plugs in one screen more than Spec).  The table is modelled   *)
(* with one slot more than that: the slot at index monitor_capacity is the *)
(* memory right after the array.                                           *)
(***************************************************************************)
RECURSIVE GrowTo(_, _)
GrowTo(cap, n) == IF cap >= n THEN cap ELSE GrowTo(2 * cap, n)

MaxCapacity == GrowTo(2, MaxScreens + 1)
Slots       == 0..MaxCapacity

ZeroMonitor ==
    [is_valid |-> FALSE, showbar |-> FALSE, topbar |-> FALSE,
     mfact |-> 0, num |-> 0, bar_height |-> 0,
     screen_x |-> 0, screen_y |-> 0, screen_width |-> 0, screen_height |-> 0,
     window_x |-> 0, window_y |-> 0, window_width |-> 0, window_height |-> 0,
     selected_tags |-> 0, selected_layout |-> 0,
     clients |-> <<>>, selected_client |-> NoClient, stack |-> <<>>]

NullClient ==
    [managed |-> FALSE, window |-> None, monitor |-> 0, tags |-> 0,
     isfixed |-> FALSE, isfloating |-> FALSE, isfullscreen |-> FALSE,
     isurgent |-> FALSE,
     oldstate |-> FALSE, border_width |-> 0, old_border_width |-> 0]

\* what XineramaQueryScreens may report: one to MaxScreens screens laid out
\* side by side from the origin
Rect(k) == [x_org |-> k * ScreenW, y_org |-> 0, width |-> ScreenW, height |-> ScreenH]
ScreenListsUpTo(k) == { [i \in 1..n |-> Rect(i - 1)] : n \in 1..k }
ScreenLists == ScreenListsUpTo(MaxScreens)

\* pointer positions: one inside the window area of every screen, and one
\* in the bar strip of the first (inside no monitor's window area)
PointersUpTo(n) ==
    { [x |-> k * ScreenW + 1, y |-> global_bar_height + 1] : k \in 0..(n - 1) }
    \cup { [x |-> 1, y |-> 0] }
Pointers == PointersUpTo(MaxScreens)

Maximum(a, b) == IF a > b THEN a ELSE b
Minimum(a, b) == IF a < b THEN a ELSE b

VARIABLES
    all_monitors,            \* Slots -> Monitor record
    monitor_capacity,        \* capacity of the all_monitors array
    selected_monitor,        \* index into all_monitors
    clients,                 \* ClientIds -> Client record (managed = allocated)
    previous_monitor_index,  \* the static of the MotionNotify handler
    crashed,                 \* "no"; "fault": the process died; "corrupt": it
                             \* wrote past the end of all_monitors
    last_op,                 \* what the last handler did (see Done)
    mode_stack,              \* 0..MODE_STACK_LEN-1 -> mode identifier
    mode_stack_top,
    rz,                      \* the resize() experiment of SpecResize
    probe                    \* the call a function specification has made last

vars == <<all_monitors, monitor_capacity, selected_monitor, clients,
          previous_monitor_index, crashed, last_op,
          mode_stack, mode_stack_top, rz, probe>>

\* the world the helper operators work on
World ==
    [mon |-> all_monitors, cap |-> monitor_capacity, sel |-> selected_monitor,
     cl |-> clients, crashed |-> FALSE, oob |-> FALSE, focused |-> FALSE,
     ret |-> 0]

(***************************************************************************)
(* Helpers of the client registry.                                         *)
(***************************************************************************)
Remove(seq, c) == SelectSeq(seq, LAMBDA e : e # c)

SeqSet(seq) == { seq[i] : i \in 1..Len(seq) }

IsVisible(w, c) ==
    BitAnd(w.cl[c].tags, w.mon[w.cl[c].monitor].selected_tags) # 0

\* for (t = list; t && !IsVisible(t); t = t->next): the first visible client
FirstVisible(w, seq) ==
    LET idx == { i \in 1..Len(seq) : IsVisible(w, seq[i]) }
    IN IF idx = {} THEN NoClient
       ELSE seq[CHOOSE i \in idx : \A j \in idx : i <= j]

\* nexttiled: the first client of seq that is neither floating nor hidden
nexttiled(w, seq) ==
    LET idx == { i \in 1..Len(seq) : ~w.cl[seq[i]].isfloating /\ IsVisible(w, seq[i]) }
    IN IF idx = {} THEN NoClient
       ELSE seq[CHOOSE i \in idx : \A j \in idx : i <= j]

\* the clients after c in its list (c->next onwards)
After(seq, c) ==
    LET idx == { i \in 1..Len(seq) : seq[i] = c }
    IN IF idx = {} THEN <<>>
       ELSE SubSeq(seq, (CHOOSE i \in idx : \A j \in idx : i <= j) + 1, Len(seq))

\* attach that links the client behind the last one
attach_at_tail(w, c) ==
    LET m == w.cl[c].monitor
    IN [w EXCEPT !.mon[m].clients = Append(@, c)]

attach(w, c) ==
    LET m == w.cl[c].monitor
    IN [w EXCEPT !.mon[m].clients = <<c>> \o @]

attachstack(w, c) ==
    LET m == w.cl[c].monitor
    IN [w EXCEPT !.mon[m].stack = <<c>> \o @]

\* a traversal that only ever unlinks the head of the list
detach_head_only(w, c) ==
    LET m == w.cl[c].monitor
    IN IF w.mon[m].clients # <<>> /\ Head(w.mon[m].clients) = c
       THEN [w EXCEPT !.mon[m].clients = Tail(@)]
       ELSE w

detach(w, c) ==
    LET m == w.cl[c].monitor
    IN [w EXCEPT !.mon[m].clients = Remove(@, c)]

\* detachstack that hands the selection to the head of what is left
detachstack_head_selected(w, c) ==
    LET m  == w.cl[c].monitor
        w1 == [w EXCEPT !.mon[m].stack = Remove(@, c)]
    IN IF c = w.mon[m].selected_client
       THEN [w1 EXCEPT !.mon[m].selected_client =
                          IF w1.mon[m].stack = <<>> THEN NoClient
                          ELSE Head(w1.mon[m].stack)]
       ELSE w1

\* detachstack that unlinks the client and leaves selected_client alone
detachstack_keeps_selection(w, c) ==
    [w EXCEPT !.mon[w.cl[c].monitor].stack = Remove(@, c)]

detachstack(w, c) ==
    LET m  == w.cl[c].monitor
        w1 == [w EXCEPT !.mon[m].stack = Remove(@, c)]
    IN IF c = w.mon[m].selected_client
       THEN [w1 EXCEPT !.mon[m].selected_client = FirstVisible(w1, w1.mon[m].stack)]
       ELSE w1

\* wintoclient that finds no client
wintoclient_finds_none(w, window) == NoClient

\* wintoclient: the valid monitors in index order, each membership list in order
RECURSIVE wintoclient_from(_, _, _)
wintoclient_from(w, window, monitor_index) ==
    IF monitor_index >= w.cap THEN NoClient
    ELSE LET hits == IF w.mon[monitor_index].is_valid
                     THEN SelectSeq(w.mon[monitor_index].clients,
                                    LAMBDA c : w.cl[c].window = window)
                     ELSE <<>>
         IN IF hits # <<>> THEN Head(hits)
            ELSE wintoclient_from(w, window, monitor_index + 1)

wintoclient(w, window) == wintoclient_from(w, window, 0)

(***************************************************************************)
(* focus                                                                   *)
(***************************************************************************)
\* focus without the fallback for a client that is not visible
focus_no_fallback(w, client) ==
    LET c  == IF client = NoClient
              THEN FirstVisible(w, w.mon[w.sel].stack)
              ELSE client
    IN IF c # NoClient
       THEN LET w1 == [w EXCEPT !.sel = w.cl[c].monitor]
                w2 == attachstack(detachstack(w1, c), c)
            IN [w2 EXCEPT !.mon[w2.sel].selected_client = c, !.focused = TRUE,
                          !.cl[c].isurgent = FALSE]
       ELSE [w EXCEPT !.mon[w.sel].selected_client = NoClient, !.focused = TRUE]

focus(w, client) ==
    LET c  == IF client = NoClient \/ ~IsVisible(w, client)
              THEN FirstVisible(w, w.mon[w.sel].stack)
              ELSE client
    IN IF c # NoClient
       THEN LET w1 == [w EXCEPT !.sel = w.cl[c].monitor]
                w2 == attachstack(detachstack(w1, c), c)
            IN [w2 EXCEPT !.mon[w2.sel].selected_client = c, !.focused = TRUE,
                          !.cl[c].isurgent = FALSE]
       ELSE [w EXCEPT !.mon[w.sel].selected_client = NoClient, !.focused = TRUE]

(***************************************************************************)
(* sendmon, pop_client, setfullscreen, manage, unmanage                    *)
(* arrange() and the X calls change no tracked state.                      *)
(***************************************************************************)
\* sendmon that moves the client with the tags it had
sendmon_keeps_tags(w, c, monitor_index) ==
    IF w.cl[c].monitor = monitor_index THEN w
    ELSE LET w1 == detachstack(detach(w, c), c)
         IN focus(attachstack(attach([w1 EXCEPT !.cl[c].monitor = monitor_index], c), c),
                  NoClient)

sendmon(w, c, monitor_index) ==
    IF w.cl[c].monitor = monitor_index THEN w
    ELSE LET w1 == detachstack(detach(w, c), c)
             w2 == [w1 EXCEPT !.cl[c].monitor = monitor_index,
                              !.cl[c].tags = w1.mon[monitor_index].selected_tags]
         IN focus(attachstack(attach(w2, c), c), NoClient)

pop_client(w, c) == focus(attach(detach(w, c), c), c)

setfullscreen(w, c, fullscreen) ==
    IF fullscreen /\ ~w.cl[c].isfullscreen
    THEN [w EXCEPT !.cl[c].isfullscreen = TRUE,
                   !.cl[c].oldstate = w.cl[c].isfloating,
                   !.cl[c].old_border_width = w.cl[c].border_width,
                   !.cl[c].border_width = 0,
                   !.cl[c].isfloating = TRUE]
    ELSE IF ~fullscreen /\ w.cl[c].isfullscreen
    THEN [w EXCEPT !.cl[c].isfullscreen = FALSE,
                   !.cl[c].isfloating = w.cl[c].oldstate,
                   !.cl[c].border_width = w.cl[c].old_border_width]
    ELSE w

\* manage(window, wa) for the freshly allocated Client c.  trans is the
\* WM_TRANSIENT_FOR hint (None when absent), isfixed what updatesizehints
\* derives, dialog and fullscreen what updatewindowtype reads.
manage(w, c, window, trans, isfixed, dialog, fullscreen) ==
    LET t  == IF trans # None THEN wintoclient(w, trans) ELSE NoClient
        suggested_tags == BitAnd(NullClient.tags, TagMask)
        w1 == [w EXCEPT !.cl[c] =
                  [NullClient EXCEPT
                      !.managed = TRUE,
                      !.window  = window,
                      !.border_width = borderpx,
                      !.monitor = IF t # NoClient THEN w.cl[t].monitor ELSE w.sel,
                      !.tags    = IF t # NoClient THEN w.cl[t].tags
                                  ELSE IF suggested_tags # 0 THEN suggested_tags
                                  ELSE w.mon[w.sel].selected_tags]]
        \* updatewindowtype
        w2 == IF fullscreen THEN setfullscreen(w1, c, TRUE) ELSE w1
        w3 == IF dialog THEN [w2 EXCEPT !.cl[c].isfloating = TRUE] ELSE w2
        \* updatesizehints
        w4 == [w3 EXCEPT !.cl[c].isfixed = isfixed]
        w5 == IF ~w4.cl[c].isfloating
              THEN [w4 EXCEPT !.cl[c].isfloating = (trans # None \/ isfixed),
                              !.cl[c].oldstate   = (trans # None \/ isfixed)]
              ELSE w4
        w6 == attachstack(attach(w5, c), c)
        w7 == [w6 EXCEPT !.mon[w6.cl[c].monitor].selected_client = c]
    IN focus(w7, NoClient)

unmanage(w, c) ==
    LET w1 == detachstack(detach(w, c), c)
        w2 == [w1 EXCEPT !.cl[c] = NullClient]      \* free(client)
    IN focus(w2, NoClient)

(***************************************************************************)
(* The monitor table                                                       *)
(***************************************************************************)
cleanup_monitor(w, monitor_index) ==
    [w EXCEPT !.mon[monitor_index] = ZeroMonitor]

\* createmon whose copy into the grown table loses a field of the monitors
createmon_lossy_copy(w) ==
    LET invalid == { i \in 0..(w.cap - 1) : ~w.mon[i].is_valid }
        grown   == [i \in Slots |-> IF i < w.cap THEN [w.mon[i] EXCEPT !.mfact = 0]
                                    ELSE ZeroMonitor]
        w1 == IF w.cap = 0
              THEN [w EXCEPT !.cap = 2, !.ret = 0]
              ELSE IF invalid # {}
              THEN [w EXCEPT !.ret = CHOOSE i \in invalid : \A j \in invalid : i <= j]
              ELSE [w EXCEPT !.mon = grown, !.cap = 2 * w.cap, !.ret = w.cap]
    IN [w1 EXCEPT !.mon[w1.ret].selected_tags = 1,
                  !.mon[w1.ret].mfact    = mfact,
                  !.mon[w1.ret].showbar  = TRUE,
                  !.mon[w1.ret].topbar   = TRUE,
                  !.mon[w1.ret].is_valid = TRUE]

\* createmon: w.ret is the index returned
createmon(w) ==
    LET invalid == { i \in 0..(w.cap - 1) : ~w.mon[i].is_valid }
        grown   == [i \in Slots |-> IF i < w.cap THEN w.mon[i] ELSE ZeroMonitor]
        w1 == IF w.cap = 0                      \* all_monitors == NULL
              THEN [w EXCEPT !.cap = 2, !.ret = 0]
              ELSE IF invalid # {}
              THEN [w EXCEPT !.ret = CHOOSE i \in invalid : \A j \in invalid : i <= j]
              ELSE [w EXCEPT !.mon = grown, !.cap = 2 * w.cap, !.ret = w.cap]
    IN [w1 EXCEPT !.mon[w1.ret].selected_tags = 1,
                  !.mon[w1.ret].mfact    = mfact,
                  !.mon[w1.ret].showbar  = TRUE,
                  !.mon[w1.ret].topbar   = TRUE,
                  !.mon[w1.ret].is_valid = TRUE]

RECURSIVE next_valid_monitor_loop(_, _, _)
next_valid_monitor_loop(w, result, start_index) ==
    IF result # start_index                     \* the for loop's condition
    THEN LET r == IF result = w.cap THEN 0 ELSE result
         IN IF w.mon[r].is_valid THEN r
            ELSE next_valid_monitor_loop(w, r + 1, start_index)
    ELSE result

\* int result = start_index; for (; result != start_index; ++result) ...
next_valid_monitor(w, start_index) ==
    next_valid_monitor_loop(w, start_index, start_index)

Area(m, x, y, width, height) ==
    Maximum(0, Minimum(x + width,  m.window_x + m.window_width)  - Maximum(x, m.window_x))
  * Maximum(0, Minimum(y + height, m.window_y + m.window_height) - Maximum(y, m.window_y))

RECURSIVE recttomon_loop(_, _, _, _, _)
recttomon_loop(w, r, monitor_index, maximum_area, result) ==
    IF monitor_index >= w.cap THEN result
    ELSE LET m == w.mon[monitor_index]
             a == Area(m, r.x, r.y, r.width, r.height)
         IN IF m.is_valid /\ a > maximum_area
            THEN recttomon_loop(w, r, monitor_index + 1, a, monitor_index)
            ELSE recttomon_loop(w, r, monitor_index + 1, maximum_area, result)

recttomon(w, x, y, width, height) ==
    recttomon_loop(w, [x |-> x, y |-> y, width |-> width, height |-> height],
                   0, 0, w.sel)

RECURSIVE dirtomon_loop(_, _, _)
dirtomon_loop(w, dir, monitor_index) ==
    LET increment  == IF dir > 0 THEN 1 ELSE -1
        end_point  == IF dir > 0 THEN w.cap ELSE -1
        loop_point == IF dir > 0 THEN 0 ELSE w.cap - 1
        m1 == monitor_index + increment
        m2 == IF m1 = end_point THEN loop_point ELSE m1
    IN IF m2 = w.sel THEN m2
       ELSE LET m3 == IF m2 = end_point THEN loop_point ELSE m2
            IN IF w.mon[m3].is_valid THEN m3
               ELSE dirtomon_loop(w, dir, m3)

\* stepping to the neighbouring slot without looking at is_valid
dirtomon_any_slot(w, dir) == (w.sel + dir + w.cap) % w.cap

dirtomon(w, dir) == dirtomon_loop(w, dir, w.sel)

\* updatebarpos that places the bar and leaves the window rectangle alone
updatebarpos_keeps_window(m) ==
    [m EXCEPT !.bar_height = IF m.showbar
                             THEN IF m.topbar THEN m.screen_y
                                  ELSE m.screen_y + (m.screen_height - global_bar_height)
                             ELSE 0 - global_bar_height]

updatebarpos(m) ==
    IF m.showbar
    THEN [m EXCEPT
            !.window_height = m.screen_height - global_bar_height,
            !.bar_height    = IF m.topbar THEN m.screen_y
                              ELSE m.screen_y + (m.screen_height - global_bar_height),
            !.window_y      = IF m.topbar THEN m.screen_y + global_bar_height
                              ELSE m.screen_y]
    ELSE [m EXCEPT !.window_y = m.screen_y, !.window_height = m.screen_height,
                   !.bar_height = 0 - global_bar_height]

(***************************************************************************)
(* updategeom, Xinerama active.  info is what XineramaQueryScreens reports,*)
(* ptr the pointer position wintomon(root) reads.  w.ret carries dirty.    *)
(* w.oob records that a migrated client was attached through               *)
(* all_monitors[monitor_capacity], the memory after the array.             *)
(***************************************************************************)
RECURSIVE unique_screens(_, _, _)
unique_screens(info, i, unique) ==
    IF i > Len(info) THEN unique
    ELSE LET found        == \E n \in 1..Len(unique) : unique[n] = info[i]
             isuniquegeom == IF found THEN 1 ELSE 1   \* set to 1 on a match too
         IN unique_screens(info, i + 1,
                           IF isuniquegeom # 0 THEN Append(unique, info[i]) ELSE unique)

RECURSIVE createmons(_, _)
createmons(w, n) == IF n <= 0 THEN w ELSE createmons(createmon(w), n - 1)

\* one pass of the loop that gives the valid monitors their screens
geomstep(w, unique, monitor_count, i, monitor_index) ==
    IF /\ w.mon[monitor_index].is_valid
       /\ \/ i >= monitor_count
          \/ unique[i + 1].x_org  # w.mon[monitor_index].screen_x
          \/ unique[i + 1].y_org  # w.mon[monitor_index].screen_y
          \/ unique[i + 1].width  # w.mon[monitor_index].screen_width
          \/ unique[i + 1].height # w.mon[monitor_index].screen_height
    THEN [w EXCEPT !.ret = 1,
                   !.mon[monitor_index] = updatebarpos(
                       [@ EXCEPT !.num = i,
                                 !.screen_x = unique[i + 1].x_org,
                                 !.window_x = unique[i + 1].x_org,
                                 !.screen_y = unique[i + 1].y_org,
                                 !.window_y = unique[i + 1].y_org,
                                 !.screen_width  = unique[i + 1].width,
                                 !.window_width  = unique[i + 1].width,
                                 !.screen_height = unique[i + 1].height,
                                 !.window_height = unique[i + 1].height])]
    ELSE w

\* for (i = 0, monitor_index = 0; i < num_screens;) { ...; ++monitor_index; }
RECURSIVE geomloop(_, _, _, _, _)
geomloop(w, unique, monitor_count, i, monitor_index) ==
    IF i >= Len(unique) THEN w
    ELSE geomloop(geomstep(w, unique, monitor_count, i, monitor_index),
                  unique, monitor_count,
                  IF w.mon[monitor_index].is_valid THEN i + 1 ELSE i,
                  monitor_index + 1)

\* monitor->clients = client->next; monitor->is_valid = 0; detachstack(client)
migrate_unlink(w, monitor_index, c) ==
    detachstack([w EXCEPT !.ret = 1,
                          !.mon[monitor_index].clients  = Tail(@),
                          !.mon[monitor_index].is_valid = FALSE], c)

\* client->monitor = next_valid_monitor(client->monitor + 1); w.oob records an
\* index past the end of the table
migrate_retarget(w, c) ==
    [w EXCEPT !.cl[c].monitor = next_valid_monitor(w, w.cl[c].monitor + 1),
              !.oob = (@ \/ next_valid_monitor(w, w.cl[c].monitor + 1) >= w.cap)]

\* while ((client = monitor->clients)) { ... } for the monitor being removed
RECURSIVE migrate(_, _)
migrate(w, monitor_index) ==
    IF w.mon[monitor_index].clients = <<>> THEN w
    ELSE migrate(attachstack(attach(migrate_retarget(
                     migrate_unlink(w, monitor_index, Head(w.mon[monitor_index].clients)),
                     Head(w.mon[monitor_index].clients)),
                     Head(w.mon[monitor_index].clients)),
                     Head(w.mon[monitor_index].clients)),
                 monitor_index)

\* the last valid slot: for (; ... && !all_monitors[monitor_index].is_valid; --monitor_index)
last_valid_monitor(w) ==
    CHOOSE i \in 0..(w.cap - 1) :
        w.mon[i].is_valid /\ \A j \in 0..(w.cap - 1) : w.mon[j].is_valid => j <= i

\* if (monitor_index == selected_monitor) selected_monitor = next_valid_monitor(0)
reselect(w, monitor_index) ==
    IF monitor_index = w.sel THEN [w EXCEPT !.sel = next_valid_monitor(w, 0)] ELSE w

remove_monitor(w, monitor_index) ==
    cleanup_monitor(reselect(migrate(w, monitor_index), monitor_index), monitor_index)

RECURSIVE remove_monitors(_, _)
remove_monitors(w, n) ==
    IF n <= 0 THEN w
    ELSE remove_monitors(remove_monitor(w, last_valid_monitor(w)), n - 1)

monitor_count(w) == Cardinality({ i \in 0..(w.cap - 1) : w.mon[i].is_valid })

\* the two branches on monitor_count <= num_screens
updategeom_monitors(w, unique) ==
    IF monitor_count(w) <= Len(unique)
    THEN geomloop([createmons(w, Len(unique) - monitor_count(w)) EXCEPT !.ret = 0],
                  unique, monitor_count(w), 0, 0)
    ELSE remove_monitors([w EXCEPT !.ret = 0], monitor_count(w) - Len(unique))

\* selected_monitor = wintomon(root), recttomon falling back on selected_monitor
select_under_pointer(w, ptr) ==
    [w EXCEPT !.sel = recttomon(w, ptr.x, ptr.y, 1, 1)]

\* if (dirty) { selected_monitor = next_valid_monitor(0); ... = wintomon(root); }
updategeom_select(w, ptr) ==
    IF w.ret = 0 THEN w
    ELSE select_under_pointer([w EXCEPT !.sel = next_valid_monitor(w, 0)], ptr)

updategeom(w, info, ptr) ==
    updategeom_select(updategeom_monitors(w, unique_screens(info, 1, <<>>)), ptr)

(***************************************************************************)
(* Commands                                                                *)
(***************************************************************************)
\* view without the test that keeps an empty mask out of selected_tags
view_stores_zero(w, ui) ==
    LET new_tags == BitAnd(ui, TagMask)
    IN IF new_tags # w.mon[w.sel].selected_tags
       THEN focus([w EXCEPT !.mon[w.sel].selected_tags = new_tags], NoClient)
       ELSE w

view(w, ui) ==
    LET new_tags == BitAnd(ui, TagMask)
    IN IF new_tags # w.mon[w.sel].selected_tags
       THEN focus(IF new_tags # 0
                  THEN [w EXCEPT !.mon[w.sel].selected_tags = new_tags]
                  ELSE w, NoClient)
       ELSE w

toggleview(w, ui) ==
    LET newtagset == BitXor(w.mon[w.sel].selected_tags, BitAnd(ui, TagMask))
    IN IF newtagset # 0
       THEN focus([w EXCEPT !.mon[w.sel].selected_tags = newtagset], NoClient)
       ELSE w

tag(w, ui) ==
    LET selected_client == w.mon[w.sel].selected_client
    IN IF selected_client # NoClient /\ BitAnd(ui, TagMask) # 0
       THEN focus([w EXCEPT !.cl[selected_client].tags = BitAnd(ui, TagMask)], NoClient)
       ELSE w

\* toggletag without the test for an empty result
toggletag_unchecked(w, ui) ==
    LET selected_client == w.mon[w.sel].selected_client
    IN IF selected_client = NoClient THEN w
       ELSE focus([w EXCEPT !.cl[selected_client].tags =
                       BitXor(w.cl[selected_client].tags, BitAnd(ui, TagMask))],
                  NoClient)

toggletag(w, ui) ==
    LET selected_client == w.mon[w.sel].selected_client
    IN IF selected_client = NoClient THEN w
       ELSE LET newtags == BitXor(w.cl[selected_client].tags, BitAnd(ui, TagMask))
            IN IF newtags # 0
               THEN focus([w EXCEPT !.cl[selected_client].tags = newtags], NoClient)
               ELSE w

tagmon(w, dir) ==
    LET selected_client == w.mon[w.sel].selected_client
    IN IF selected_client = NoClient THEN w
       ELSE LET next_monitor == dirtomon(w, dir)
            IN IF next_monitor # w.sel
               THEN sendmon(w, selected_client, next_monitor)
               ELSE w

set_current_monitor(w, monitor_index) ==
    focus([w EXCEPT !.sel = monitor_index], NoClient)

focusmon(w, dir) ==
    LET monitor_index == dirtomon(w, dir)
    IN IF monitor_index = w.sel THEN w
       ELSE set_current_monitor(w, monitor_index)

LastVisible(w, seq) ==
    LET idx == { i \in 1..Len(seq) : IsVisible(w, seq[i]) }
    IN IF idx = {} THEN NoClient
       ELSE seq[CHOOSE i \in idx : \A j \in idx : j <= i]

focusstack(w, dir) ==
    LET m  == w.mon[w.sel]
        sc == m.selected_client
    IN IF sc # NoClient /\ ~w.cl[sc].isfullscreen
       THEN LET before == SubSeq(m.clients, 1, Len(m.clients) - Len(After(m.clients, sc)) - 1)
                from   == <<sc>> \o After(m.clients, sc)
                c == IF dir > 0
                     THEN IF FirstVisible(w, After(m.clients, sc)) # NoClient
                          THEN FirstVisible(w, After(m.clients, sc))
                          ELSE FirstVisible(w, m.clients)
                     ELSE IF LastVisible(w, before) # NoClient
                          THEN LastVisible(w, before)
                          ELSE LastVisible(w, from)
            IN IF c # NoClient THEN focus(w, c) ELSE w
       ELSE w

\* pop_client(NULL) dereferences the NULL pointer in detach
\* make_main_client that pops the selected client even when it is the master
make_main_client_pops_selected(w) ==
    LET sc == w.mon[w.sel].selected_client
    IN IF sc = NoClient \/ w.cl[sc].isfloating THEN w ELSE pop_client(w, sc)

make_main_client(w) ==
    LET m  == w.mon[w.sel]
        sc == m.selected_client
    IN IF sc # NoClient /\ w.cl[sc].isfloating THEN w
       ELSE IF sc = nexttiled(w, m.clients)
       THEN IF sc = NoClient THEN w
            ELSE LET nx == nexttiled(w, After(m.clients, sc))
                 IN IF nx = NoClient THEN w ELSE pop_client(w, nx)
       ELSE IF sc = NoClient THEN [w EXCEPT !.crashed = TRUE]
       ELSE pop_client(w, sc)

(***************************************************************************)
(* The event handlers of main()                                            *)
(***************************************************************************)
\* last_op: "focus" when the handler called focus() (nothing it did after
\* that call changed a list, a tag or a selection), "none" when it did not
Done(w) == IF w.focused THEN "focus" ELSE "none"

\* the state a handler leaves.  A fault ends the process where it stood.  A
\* write past the end of all_monitors either faults or lands; once it has
\* landed the heap is corrupt and the model follows the process no further.
Land(w, op) ==
    /\ \E outcome \in (IF w.crashed THEN {"fault"}
                       ELSE IF w.oob THEN {"fault", "corrupt"} ELSE {"no"}) :
        /\ crashed' = outcome
        /\ IF outcome = "fault"
           THEN UNCHANGED <<all_monitors, monitor_capacity, selected_monitor,
                            clients, last_op>>
           ELSE /\ all_monitors'     = w.mon
                /\ monitor_capacity' = w.cap
                /\ selected_monitor' = w.sel
                /\ clients'          = w.cl
                /\ last_op'          = op
    /\ UNCHANGED <<mode_stack, mode_stack_top, rz>>

\* a handler of the event loop: it makes no recorded call
Commit(w, op) == Land(w, op) /\ probe' = probe

ValidMonitors(w) == { i \in 0..(w.cap - 1) : w.mon[i].is_valid }

\* the windows an event may name: the root (with the pointer position), the
\* bar of a valid monitor, or a client window
EventWindows(w) ==
    { [kind |-> "root", ptr |-> p, id |-> 0] : p \in Pointers }
    \cup { [kind |-> "bar", ptr |-> CHOOSE p \in Pointers : TRUE, id |-> m] : m \in ValidMonitors(w) }
    \cup { [kind |-> "window", ptr |-> CHOOSE p \in Pointers : TRUE, id |-> x] : x \in Windows }

wintomon(w, ev) ==
    IF ev.kind = "root" THEN recttomon(w, ev.ptr.x, ev.ptr.y, 1, 1)
    ELSE IF ev.kind = "bar" THEN ev.id
    ELSE IF wintoclient(w, ev.id) # NoClient THEN w.cl[wintoclient(w, ev.id)].monitor
    ELSE w.sel

FreeClients == { c \in ClientIds : ~clients[c].managed }

\* malloc: the Client struct a new window gets (an address not in use)
NewClient(window) ==
    IF window \in FreeClients THEN window
    ELSE CHOOSE c \in FreeClients : \A d \in FreeClients : c <= d

\* maprequest.  The windows mapped under Spec carry no WM_TRANSIENT_FOR hint,
\* no fixed-size hints, no dialog type and no fullscreen state.
MapRequest ==
    /\ crashed = "no"
    /\ previous_monitor_index' = previous_monitor_index
    /\ \E window \in Windows, override_redirect \in BOOLEAN :
        IF override_redirect \/ wintoclient(World, window) # NoClient
        THEN Commit(World, "none")
        ELSE /\ FreeClients # {}
             /\ LET w1 == manage(World, NewClient(window), window, None,
                                 FALSE, FALSE, FALSE)
                IN Commit(w1, Done(w1))

DestroyNotify ==
    /\ crashed = "no"
    /\ \E window \in Windows :
        /\ previous_monitor_index' = previous_monitor_index
        /\ LET c == wintoclient(World, window)
           IN IF c # NoClient
              THEN Commit(unmanage(World, c), "focus")
              ELSE Commit(World, "none")

UnmapNotify ==
    /\ crashed = "no"
    /\ \E window \in Windows, send_event \in BOOLEAN :
        /\ previous_monitor_index' = previous_monitor_index
        /\ LET c == wintoclient(World, window)
           IN IF c # NoClient /\ ~send_event
              THEN Commit(unmanage(World, c), "focus")
              ELSE Commit(World, "none")

\* the tags drawn in the bar of the selected monitor
DisplayedTags(w) ==
    { i \in 0..(NumTags - 1) :
        \/ BitAnd(w.mon[w.sel].selected_tags, Pow2(i)) # 0
        \/ \E k \in 1..Len(w.mon[w.sel].clients) :
              BitAnd(w.cl[w.mon[w.sel].clients[k]].tags, Pow2(i)) # 0 }

\* buttons[]: what a click on the bar is bound to
BarBindings(w) ==
    { [func |-> f, ui |-> Pow2(i)] :
        f \in {"view", "toggleview", "tag", "toggletag"}, i \in DisplayedTags(w) }
    \cup { [func |-> "make_main_client", ui |-> 0], [func |-> "none", ui |-> 0] }

RunBinding(w, b) ==
    IF b.func = "view" THEN view(w, b.ui)
    ELSE IF b.func = "toggleview" THEN toggleview(w, b.ui)
    ELSE IF b.func = "tag" THEN tag(w, b.ui)
    ELSE IF b.func = "toggletag" THEN toggletag(w, b.ui)
    ELSE IF b.func = "make_main_client" THEN make_main_client(w)
    ELSE w

\* buttonpress, for clicks without a modifier (no interactive move or resize)
ButtonPress ==
    /\ crashed = "no"
    /\ previous_monitor_index' = previous_monitor_index
    /\ \E ev \in EventWindows(World) :
        LET monitor_index == wintomon(World, ev)
            w1 == IF monitor_index # World.sel
                  THEN focus([World EXCEPT !.sel = monitor_index], NoClient)
                  ELSE World
        IN IF ev.kind = "bar" /\ ev.id = w1.sel
           THEN \E b \in BarBindings(w1) :
                    Commit(RunBinding(w1, b), Done(RunBinding(w1, b)))
           ELSE IF ev.kind = "window" /\ wintoclient(w1, ev.id) # NoClient
           THEN Commit(focus(w1, wintoclient(w1, ev.id)), "focus")
           ELSE Commit(w1, Done(w1))

EnterNotify ==
    /\ crashed = "no"
    /\ previous_monitor_index' = previous_monitor_index
    /\ \E ev \in EventWindows(World) :
        LET client == IF ev.kind = "window" THEN wintoclient(World, ev.id) ELSE NoClient
            monitor_index == IF client # NoClient THEN World.cl[client].monitor
                             ELSE wintomon(World, ev)
        IN IF monitor_index # World.sel
           THEN Commit([World EXCEPT !.sel = monitor_index], "none")
           ELSE IF client # NoClient /\ client # World.mon[World.sel].selected_client
           THEN Commit(focus(World, client), "focus")
           ELSE Commit(World, "none")

MotionNotify ==
    /\ crashed = "no"
    /\ \E ptr \in Pointers :
        LET monitor_index == recttomon(World, ptr.x, ptr.y, 1, 1)
        IN /\ previous_monitor_index' = monitor_index
           /\ IF /\ monitor_index # previous_monitor_index
                 /\ previous_monitor_index >= 0
                 /\ previous_monitor_index <= monitor_capacity - 1
              THEN Commit(focus([World EXCEPT !.sel = monitor_index], NoClient), "focus")
              ELSE Commit(World, "none")

\* ConfigureNotify on the root window; resized says whether the event's
\* width or height differs from global_screen_width/height
\* if (updategeom() || dirty) { ...; focus(NULL); arrange(-1); }
after_updategeom(w, resized) ==
    IF w.ret # 0 \/ resized
    THEN Commit(focus(w, NoClient), "focus")
    ELSE Commit(w, "none")

ConfigureNotifyOf(info, ptr, resized) ==
    /\ crashed = "no"
    /\ previous_monitor_index' = previous_monitor_index
    /\ after_updategeom(updategeom(World, info, ptr), resized)

ConfigureNotify ==
    \E info \in ScreenLists, ptr \in Pointers, resized \in BOOLEAN :
        ConfigureNotifyOf(info, ptr, resized)

(***************************************************************************)
(* Key presses, by the command bound                                       *)
(***************************************************************************)
KeyView ==
    /\ crashed = "no" /\ previous_monitor_index' = previous_monitor_index
    /\ \E ui \in TagArgs :
          Commit(view(World, ui), Done(view(World, ui)))

KeyToggleView ==
    /\ crashed = "no" /\ previous_monitor_index' = previous_monitor_index
    /\ \E ui \in TagArgs : Commit(toggleview(World, ui), Done(toggleview(World, ui)))

KeyTag ==
    /\ crashed = "no" /\ previous_monitor_index' = previous_monitor_index
    /\ \E ui \in TagArgs : Commit(tag(World, ui), Done(tag(World, ui)))

KeyToggleTag ==
    /\ crashed = "no" /\ previous_monitor_index' = previous_monitor_index
    /\ \E ui \in TagArgs : Commit(toggletag(World, ui), Done(toggletag(World, ui)))

KeyTagMon ==
    /\ crashed = "no" /\ previous_monitor_index' = previous_monitor_index
    /\ \E dir \in {-1, 1} : Commit(tagmon(World, dir), Done(tagmon(World, dir)))

KeyFocusMon ==
    /\ crashed = "no" /\ previous_monitor_index' = previous_monitor_index
    /\ \E dir \in {-1, 1} : Commit(focusmon(World, dir), Done(focusmon(World, dir)))

KeyFocusStack ==
    /\ crashed = "no" /\ previous_monitor_index' = previous_monitor_index
    /\ \E dir \in {-1, 1} : Commit(focusstack(World, dir), Done(focusstack(World, dir)))

KeyMakeMainClient ==
    /\ crashed = "no" /\ previous_monitor_index' = previous_monitor_index
    /\ Commit(make_main_client(World), Done(make_main_client(World)))

(***************************************************************************)
(* The state after setup(): updategeom on the empty table, then focus(NULL)*)
(***************************************************************************)
EmptyWorld ==
    [mon |-> [i \in Slots |-> ZeroMonitor], cap |-> 0, sel |-> 0,
     cl |-> [c \in ClientIds |-> NullClient],
     crashed |-> FALSE, oob |-> FALSE, focused |-> FALSE, ret |-> 0]

ModeInit ==
    /\ mode_stack = [i \in 0..(MODE_STACK_LEN - 1) |-> ModeNormal]
    /\ mode_stack_top = 0

RzIdle ==
    [pc |-> "idle", client |-> NoClient, args |-> NoClient, first |-> 0]

ProbeIdle == [fn |-> "none"]

AfterSetup(w) ==
    /\ all_monitors     = w.mon
    /\ monitor_capacity = w.cap
    /\ selected_monitor = w.sel
    /\ clients          = w.cl

Init ==
    /\ \E info \in ScreenLists, ptr \in Pointers :
          AfterSetup(focus(updategeom(EmptyWorld, info, ptr), NoClient))
    /\ previous_monitor_index = -1
    /\ crashed = "no"
    /\ last_op = "focus"
    /\ ModeInit
    /\ rz = RzIdle
    /\ probe = ProbeIdle

Next ==
    \/ MapRequest
    \/ DestroyNotify
    \/ UnmapNotify
    \/ ButtonPress
    \/ EnterNotify
    \/ MotionNotify
    \/ ConfigureNotify
    \/ KeyView
    \/ KeyToggleView
    \/ KeyTag
    \/ KeyToggleTag
    \/ KeyTagMon
    \/ KeyFocusMon
    \/ KeyFocusStack
    \/ KeyMakeMainClient

Spec == Init /\ [][Next]_vars

(***************************************************************************)
(* Screens coming and going.  SpecGeom plugs in up to MaxScreens + 1       *)
(* screens, enough for createmon to double the table, and keeps to the     *)
(* handlers that put clients on monitors and move them between monitors.   *)
(***************************************************************************)
ConfigureNotifyWide ==
    \E info \in ScreenListsUpTo(MaxScreens + 1), ptr \in PointersUpTo(MaxScreens + 1) :
        ConfigureNotifyOf(info, ptr, FALSE)

NextGeom ==
    \/ MapRequest
    \/ KeyTagMon
    \/ KeyFocusMon
    \/ ConfigureNotifyWide

SpecGeom == Init /\ [][NextGeom]_vars

(***************************************************************************)
(* The mode stack.  push_mode, pop_mode and reset_mode are called in any   *)
(* order; last_op records the call and whether its guard let it through.  *)
(***************************************************************************)
PushArgs == {ModeQuit, ModeBrowser, ModeSurfBrowser}

\* pop_mode without a usable guard
pop_mode_no_guard(top) == IF top >= 0 THEN top - 1 ELSE top

\* pop_mode: the top index it leaves
pop_mode(top) == IF top > 0 THEN top - 1 ELSE top

\* reset_mode that leaves the top index where it is
reset_mode_keeps_top(top) == top

reset_mode(top) == 0

\* push_mode.  The guard lets a push through at top = 7; the store then goes
\* to mode_stack[8], one int past the array.  The next global declared is
\* mode_stack_top: the store lands on it or on some other word.
push_mode(mode_info_index) ==
    IF mode_stack_top < MODE_STACK_LEN
    THEN /\ last_op' = "push_mode"
         /\ IF mode_stack_top + 1 < MODE_STACK_LEN
            THEN /\ mode_stack_top' = mode_stack_top + 1
                 /\ mode_stack' = [mode_stack EXCEPT ![mode_stack_top + 1] = mode_info_index]
            ELSE /\ mode_stack' = mode_stack
                 /\ \E landed \in {"on mode_stack_top", "elsewhere"} :
                      mode_stack_top' = IF landed = "on mode_stack_top"
                                        THEN mode_info_index
                                        ELSE mode_stack_top + 1
    ELSE /\ last_op' = "push_mode ignored"
         /\ UNCHANGED <<mode_stack, mode_stack_top>>

PushMode ==
    /\ \E mode_info_index \in PushArgs : push_mode(mode_info_index)
    /\ UNCHANGED <<all_monitors, monitor_capacity, selected_monitor, clients,
                   previous_monitor_index, crashed, rz, probe>>

PopMode ==
    /\ mode_stack_top' = pop_mode(mode_stack_top)
    /\ last_op' = IF mode_stack_top > 0 THEN "pop_mode" ELSE "pop_mode ignored"
    /\ UNCHANGED <<mode_stack, all_monitors, monitor_capacity, selected_monitor,
                   clients, previous_monitor_index, crashed, rz, probe>>

ResetMode ==
    /\ mode_stack_top' = reset_mode(mode_stack_top)
    /\ last_op' = "reset_mode"
    /\ UNCHANGED <<mode_stack, all_monitors, monitor_capacity, selected_monitor,
                   clients, previous_monitor_index, crashed, rz, probe>>

NextMode ==
    \/ PushMode
    \/ PopMode
    \/ ResetMode

SpecMode == Init /\ [][NextMode]_vars

(***************************************************************************)
(* resize(), tried twice with the same arguments on one client.  The       *)
(* client has no WM_NORMAL_HINTS (all size hints zero, no aspect limits);  *)
(* its monitor's window area is RzSpan wide and high below the bar.        *)
(***************************************************************************)
RzMonitor ==
    [window_x |-> 0, window_y |-> global_bar_height,
     window_width |-> RzSpan, window_height |-> RzSpan]

global_screen_width  == RzSpan
global_screen_height == RzSpan + global_bar_height

GappedClientWidth(client, gap)  == client.width  + 2 * client.border_width + gap
GappedClientHeight(client, gap) == client.height + 2 * client.border_width + gap

\* a % b of C for b > 0: the remainder has the sign of a
CRem(a, b) == IF a >= 0 THEN a % b ELSE 0 - ((0 - a) % b)

\* applysizehints: the adjusted rectangle and the value returned.  m is
\* all_monitors[client->monitor], gap the current gap_size.  The client has no
\* aspect limits (min_aspect = max_aspect = 0), so base_width and base_height
\* are subtracted once, before the increments, whether or not base is min.
applysizehints(m, gap, client, x, y, width, height, interact) ==
    LET w1 == Maximum(1, width)
        h1 == Maximum(1, height)
        x1 == IF interact
              THEN IF x > global_screen_width
                   THEN global_screen_width - GappedClientWidth(client, gap) ELSE x
              ELSE IF x >= m.window_x + m.window_width
                   THEN m.window_x + m.window_width - GappedClientWidth(client, gap) ELSE x
        y1 == IF interact
              THEN IF y > global_screen_height
                   THEN global_screen_height - GappedClientHeight(client, gap) ELSE y
              ELSE IF y >= m.window_y + m.window_height
                   THEN m.window_y + m.window_height - GappedClientHeight(client, gap) ELSE y
        x2 == IF interact
              THEN IF x1 + w1 + 2 * client.border_width < 0 THEN 0 ELSE x1
              ELSE IF x1 + w1 + 2 * client.border_width <= m.window_x THEN m.window_x ELSE x1
        y2 == IF interact
              THEN IF y1 + h1 + 2 * client.border_width < 0 THEN 0 ELSE y1
              ELSE IF y1 + h1 + 2 * client.border_width <= m.window_y THEN m.window_y ELSE y1
        h2 == IF h1 < global_bar_height THEN global_bar_height ELSE h1
        w2 == IF w1 < global_bar_height THEN global_bar_height ELSE w1
        \* the isfloating branch
        w3 == w2 - client.base_width
        h3 == h2 - client.base_height
        w4 == IF client.inc_width  # 0 THEN w3 - CRem(w3, client.inc_width)  ELSE w3
        h4 == IF client.inc_height # 0 THEN h3 - CRem(h3, client.inc_height) ELSE h3
        w5 == Maximum(w4 + client.base_width,  client.min_width)
        h5 == Maximum(h4 + client.base_height, client.min_height)
        w6 == IF client.max_width  # 0 THEN Minimum(w5, client.max_width)  ELSE w5
        h6 == IF client.max_height # 0 THEN Minimum(h5, client.max_height) ELSE h5
        wf == IF client.isfloating THEN w6 ELSE w2
        hf == IF client.isfloating THEN h6 ELSE h2
    IN [x |-> x2, y |-> y2, width |-> wf, height |-> hf,
        changed |-> (x2 # client.x \/ y2 # client.y
                     \/ wf # client.width \/ hf # client.height)]

\* resizeclient that stores the rectangle it is given, without the gap
resizeclient_without_gap(gap, client, x, y, width, height) ==
    [client EXCEPT !.x = x, !.y = y, !.width = width, !.height = height,
                   !.configured = @ + 1]

\* resizeclient: the geometry it stores and sends in XConfigureWindow.  The
\* border width it sends (0 in monocle or with one tiled client) goes to the
\* X server only; client->border_width is not written.
resizeclient(gap, client, x, y, width, height) ==
    LET gapoffset == IF client.isfloating THEN 0 ELSE gap
        gapincr   == IF client.isfloating THEN 0 ELSE 2 * gap
    IN [client EXCEPT !.x = x + gapoffset, !.y = y + gapoffset,
                      !.width = width - gapincr, !.height = height - gapincr,
                      !.configured = @ + 1]

resize_args(gap, client, a) ==
    IF a.changed THEN resizeclient(gap, client, a.x, a.y, a.width, a.height)
    ELSE client

resize(m, gap, client, x, y, width, height, interact) ==
    resize_args(gap, client, applysizehints(m, gap, client, x, y, width, height, interact))

RzCoords == {0, gap_size, RzSpan + 1}
RzSizes  == {2 * gap_size + 1, RzSpan \div 2}

RzClients ==
    { [x |-> x, y |-> global_bar_height, width |-> width, height |-> RzSpan \div 2,
       border_width |-> borderpx, isfloating |-> f,
       base_width |-> 0, base_height |-> 0, min_width |-> 0, min_height |-> 0,
       max_width |-> 0, max_height |-> 0, inc_width |-> 0, inc_height |-> 0,
       configured |-> 0] :
        x \in RzCoords, width \in RzSizes, f \in BOOLEAN }

RzArgs ==
    { [x |-> x, y |-> y, width |-> width, height |-> RzSpan \div 2, interact |-> i] :
        x \in RzCoords, y \in {global_bar_height, RzSpan + global_bar_height + 1},
        width \in RzSizes, i \in BOOLEAN }

\* a client and the arguments of the two calls are chosen
RzChoose ==
    /\ rz.pc = "idle"
    /\ \E client \in RzClients, args \in RzArgs :
          rz' = [pc |-> "chosen", client |-> client, args |-> args, first |-> 0]
    /\ UNCHANGED <<all_monitors, monitor_capacity, selected_monitor, clients,
                   previous_monitor_index, crashed, last_op,
                   mode_stack, mode_stack_top, probe>>

\* resize(c, x, y, w, h, interact), the first and then the second time
RzResize ==
    /\ rz.pc \in {"chosen", "once"}
    /\ LET client == resize(RzMonitor, gap_size, rz.client, rz.args.x, rz.args.y,
                            rz.args.width, rz.args.height, rz.args.interact)
       IN rz' = [rz EXCEPT
                   !.pc     = IF rz.pc = "chosen" THEN "once" ELSE "twice",
                   !.client = client,
                   !.first  = IF rz.pc = "chosen" THEN client.configured ELSE @]
    /\ UNCHANGED <<all_monitors, monitor_capacity, selected_monitor, clients,
                   previous_monitor_index, crashed, last_op,
                   mode_stack, mode_stack_top, probe>>

NextResize ==
    \/ RzChoose
    \/ RzResize

SpecResize == Init /\ [][NextResize]_vars

(***************************************************************************)
(* The monitor table functions, called on the tables the window manager    *)
(* builds.  Each specification lets screens come and go and records in     *)
(* probe what one function saw and returned:                               *)
(*   SpecNextValid  next_valid_monitor with every start index its callers  *)
(*                  can pass, 0 .. monitor_capacity (updategeom passes     *)
(*                  client->monitor + 1);                                  *)
(*   SpecCreatemon  createmon on the current table;                        *)
(*   SpecScreens    updategeom as the ConfigureNotify handler calls it,    *)
(*                  with cloned outputs (two screens reporting the same    *)
(*                  rectangle) among the screen lists.                     *)
(***************************************************************************)
NextValidMonitor ==
    /\ crashed = "no"
    /\ \E start_index \in 0..monitor_capacity :
          probe' = [fn |-> "next_valid_monitor", start_index |-> start_index,
                    capacity |-> monitor_capacity, valid |-> ValidMonitors(World),
                    result |-> next_valid_monitor(World, start_index)]
    /\ UNCHANGED <<all_monitors, monitor_capacity, selected_monitor, clients,
                   previous_monitor_index, crashed, last_op,
                   mode_stack, mode_stack_top, rz>>

\* the table a call works on: the slots of the array and its capacity
Table(w) == [mon |-> [i \in 0..(w.cap - 1) |-> w.mon[i]], cap |-> w.cap]

CreatemonOf(w) ==
    probe' = [fn |-> "createmon", before |-> Table(World), after |-> Table(w),
              result |-> w.ret]

Createmon ==
    /\ crashed = "no"
    /\ monitor_capacity < MaxCapacity \/ ValidMonitors(World) # 0..(monitor_capacity - 1)
    /\ CreatemonOf(createmon(World))
    /\ UNCHANGED <<all_monitors, monitor_capacity, selected_monitor, clients,
                   previous_monitor_index, crashed, last_op,
                   mode_stack, mode_stack_top, rz>>

\* screen lists with cloned outputs: a list of distinct screens, or one with a
\* screen of the list reported once more
ClonedScreenLists(k) ==
    ScreenListsUpTo(k)
    \cup UNION { { Append(info, info[i]) : i \in 1..Len(info) } :
                 info \in ScreenListsUpTo(k - 1) }

\* ConfigureNotify on the root window with the screen size unchanged:
\* if (updategeom()) { focus(NULL); arrange(-1); }
ScreensNotifyOf(w, info) ==
    /\ Land(IF w.ret # 0 THEN focus(w, NoClient) ELSE w,
            IF w.ret # 0 THEN "focus" ELSE "none")
    /\ probe' = [fn |-> "updategeom", info |-> info, result |-> w.ret,
                 before |-> Table(World), after |-> Table(w),
                 clients_before |-> clients, clients_after |-> w.cl]

ScreensNotify ==
    /\ crashed = "no"
    /\ previous_monitor_index' = previous_monitor_index
    /\ \E info \in ClonedScreenLists(MaxScreens), ptr \in Pointers :
          ScreensNotifyOf(updategeom(World, info, ptr), info)

NextNextValid ==
    \/ MapRequest
    \/ KeyTagMon
    \/ ConfigureNotifyWide
    \/ NextValidMonitor

SpecNextValid == Init /\ [][NextNextValid]_vars

NextCreatemon ==
    \/ MapRequest
    \/ ConfigureNotifyWide
    \/ Createmon

SpecCreatemon == Init /\ [][NextCreatemon]_vars

NextScreens ==
    \/ MapRequest
    \/ KeyTagMon
    \/ ScreensNotify

SpecScreens == Init /\ [][NextScreens]_vars

(***************************************************************************)
(* Fullscreen and floating.  SpecFullscreen maps windows that may carry    *)
(* the fullscreen state or the dialog type and lets clients and the user   *)
(* act on the two flags and on the border width: _NET_WM_STATE client      *)
(* messages, configure requests, property changes and togglefloating.      *)
(* arrange() and resize() move windows and change none of the fields       *)
(* tracked here.                                                           *)
(***************************************************************************)
\* border widths a ConfigureRequest may carry
RequestedBorderWidths == {0, 1}

\* selected_client->isfloating = !selected_client->isfloating || selected_client->isfixed
togglefloating(w) ==
    IF /\ w.mon[w.sel].selected_client # NoClient
       /\ ~w.cl[w.mon[w.sel].selected_client].isfullscreen
    THEN [w EXCEPT !.cl[w.mon[w.sel].selected_client].isfloating =
                       (~@ \/ w.cl[w.mon[w.sel].selected_client].isfixed)]
    ELSE w

\* configurerequest for a managed window.  has_border_width is
\* ev->value_mask & CWBorderWidth; without it the request moves or resizes a
\* floating client, or is answered by configure(client)
configurerequest(w, window, has_border_width, border_width) ==
    IF wintoclient(w, window) # NoClient /\ has_border_width
    THEN [w EXCEPT !.cl[wintoclient(w, window)].border_width = border_width]
    ELSE w

\* updatewindowtype: fullscreen is state == netatom[NetWMFullscreen], dialog is
\* wtype == netatom[NetWMWindowTypeDialog]
set_dialog(w, c, dialog) ==
    IF dialog THEN [w EXCEPT !.cl[c].isfloating = TRUE] ELSE w

updatewindowtype(w, c, fullscreen, dialog) ==
    set_dialog(IF fullscreen THEN setfullscreen(w, c, TRUE) ELSE w, c, dialog)

\* case ClientMessage with message_type NetWMState naming NetWMFullscreen;
\* action is cme->data.l[0]: 0 remove, 1 add, 2 toggle
clientmessage(w, window, action) ==
    IF wintoclient(w, window) # NoClient
    THEN setfullscreen(w, wintoclient(w, window),
                       action = 1 \/ (action = 2 /\ ~w.cl[wintoclient(w, window)].isfullscreen))
    ELSE w

\* case PropertyNotify, atom XA_WM_TRANSIENT_FOR (trans is the hint, None when
\* XGetTransientForHint fails) or NetWMWindowType
propertynotify_transient(w, window, trans) ==
    IF /\ wintoclient(w, window) # NoClient
       /\ ~w.cl[wintoclient(w, window)].isfloating
       /\ trans # None
    THEN [w EXCEPT !.cl[wintoclient(w, window)].isfloating = (wintoclient(w, trans) # NoClient)]
    ELSE w

propertynotify_windowtype(w, window, fullscreen, dialog) ==
    IF wintoclient(w, window) # NoClient
    THEN updatewindowtype(w, wintoclient(w, window), fullscreen, dialog)
    ELSE w

MapRequestTyped ==
    /\ crashed = "no" /\ previous_monitor_index' = previous_monitor_index
    /\ \E window \in Windows, fullscreen \in BOOLEAN, dialog \in BOOLEAN :
          /\ wintoclient(World, window) = NoClient
          /\ NewClient(window) \in FreeClients
          /\ Commit(manage(World, NewClient(window), window, None, FALSE, dialog, fullscreen),
                    "focus")

ClientMessage ==
    /\ crashed = "no" /\ previous_monitor_index' = previous_monitor_index
    /\ \E window \in Windows, action \in {0, 1, 2} :
          Commit(clientmessage(World, window, action), "none")

ConfigureRequest ==
    /\ crashed = "no" /\ previous_monitor_index' = previous_monitor_index
    /\ \E window \in Windows, has_border_width \in BOOLEAN,
          border_width \in RequestedBorderWidths :
          Commit(configurerequest(World, window, has_border_width, border_width), "none")

PropertyNotify ==
    /\ crashed = "no" /\ previous_monitor_index' = previous_monitor_index
    /\ \/ \E window \in Windows, trans \in Windows \cup {None} :
             Commit(propertynotify_transient(World, window, trans), "none")
       \/ \E window \in Windows, fullscreen \in BOOLEAN, dialog \in BOOLEAN :
             Commit(propertynotify_windowtype(World, window, fullscreen, dialog), "none")

KeyToggleFloating ==
    /\ crashed = "no" /\ previous_monitor_index' = previous_monitor_index
    /\ Commit(togglefloating(World), "none")

NextFullscreen ==
    \/ MapRequestTyped
    \/ DestroyNotify
    \/ ClientMessage
    \/ ConfigureRequest
    \/ PropertyNotify
    \/ KeyToggleFloating
    \/ KeyFocusStack

SpecFullscreen == Init /\ [][NextFullscreen]_vars

(***************************************************************************)
(* The layouts.  SpecLayout takes one monitor with N clients on the        *)
(* selected tag, as manage() leaves them, and calls arrange() and          *)
(* togglefloating() on it; probe holds the monitor, the gap, the clients   *)
(* in list order (head first) with their stored rectangles, and the calls  *)
(* made so far.  The window heights chosen are at least the gap, so that   *)
(* the unsigned division of tile() sees no wrapped value.                  *)
(***************************************************************************)
tile_index    == 0
monocle_index == 1

RECURSIVE BitLength(_)
BitLength(n) == IF n = 0 THEN 0 ELSE 1 + BitLength(n \div 2)

\* ((float)mfact) / 100.0f for 50 <= mfact < 100: the 24-bit significand m of
\* the nearest float, the value being m / 2^24 (round to nearest, ties to even)
f_fact(fact) ==
    LET q == (fact * Pow2(24)) \div 100
        r == (fact * Pow2(24)) % 100
    IN IF 2 * r > 100 \/ (2 * r = 100 /\ q % 2 = 1) THEN q + 1 ELSE q

\* unsigned int master_width = monitor->window_width * f_fact: the float
\* product rounded to 24 significant bits, then truncated.  The product
\* window_width * m is split in 12-bit limbs to stay within 32-bit integers:
\* it is (ah * 2^24 + low) with low < 2^25.
float_product(ah, low) ==
    IF ah + low \div Pow2(24) >= 1
       /\ low % Pow2(24) >= Pow2(24) - Pow2(BitLength(ah + low \div Pow2(24)) - 1)
    THEN ah + low \div Pow2(24) + 1
    ELSE ah + low \div Pow2(24)

master_width(window_width, fact) ==
    float_product((window_width * (f_fact(fact) \div 4096)) \div 4096,
                  ((window_width * (f_fact(fact) \div 4096)) % 4096) * 4096
                      + window_width * (f_fact(fact) % 4096))

\* the positions in the list of the clients nexttiled() visits
RECURSIVE TiledFrom(_, _)
TiledFrom(cs, i) ==
    IF i > Len(cs) THEN <<>>
    ELSE IF cs[i].isfloating THEN TiledFrom(cs, i + 1)
    ELSE <<i>> \o TiledFrom(cs, i + 1)

\* the loop over the stack clients ("draw remaining windows on right")
RECURSIVE tile_stack(_, _, _, _, _, _, _)
tile_stack(m, gap, cs, rest, mw, height, ty) ==
    IF rest = <<>> THEN cs
    ELSE tile_stack(m, gap,
                    [cs EXCEPT ![Head(rest)] =
                        resize(m, gap, @, m.window_x, m.window_y + ty,
                               m.window_width - mw - 2 * @.border_width,
                               height - 2 * @.border_width + gap, FALSE)],
                    Tail(rest), mw, height,
                    IF ty + height < m.window_height THEN ty + height ELSE ty)

tile_clients(m, gap, cs, tiled, mw) ==
    IF Len(tiled) = 0 THEN cs
    ELSE IF Len(tiled) = 1
    THEN [cs EXCEPT ![tiled[1]] =
             resize(m, gap, @, m.window_x, m.window_y,
                    m.window_width, m.window_height, FALSE)]
    ELSE tile_stack(m, gap,
                    [cs EXCEPT ![tiled[1]] =
                        resize(m, gap, @, m.window_x + m.window_width - mw, m.window_y,
                               mw - 2 * @.border_width,
                               m.window_height - 2 * @.border_width, FALSE)],
                    Tail(tiled), mw - gap,
                    (m.window_height - gap) \div (Len(tiled) - 1), 0)

tile(m, gap, cs) ==
    tile_clients(m, gap, cs, TiledFrom(cs, 1), master_width(m.window_width, m.mfact))

monocle(m, gap, cs) ==
    [i \in DOMAIN cs |->
        IF cs[i].isfloating THEN cs[i]
        ELSE resize(m, gap, cs[i], m.window_x, m.window_y,
                    m.window_width, m.window_height, FALSE)]

\* layouts[monitor->selected_layout].arrange(monitor_index)
arrange(m, gap, cs) ==
    IF m.selected_layout = monocle_index THEN monocle(m, gap, cs) ELSE tile(m, gap, cs)

\* togglefloating on the client at position sel, which is not fullscreen
center(m, gap, c) ==
    IF c.isfloating
    THEN resize(m, gap, c, m.window_width \div 2 - c.width \div 2,
                m.window_height \div 2 - c.height \div 2, c.width, c.height, FALSE)
    ELSE c

togglefloating_arrange(m, gap, cs, sel) ==
    arrange(m, gap,
            [cs EXCEPT ![sel] = center(m, gap, [@ EXCEPT !.isfloating = (~@ \/ cs[sel].isfixed)])])

\* a client as manage() has left it: the geometry its window asked for, the
\* configured border, no size hints
LayClient ==
    [x |-> 0, y |-> 0, width |-> 100, height |-> 50,
     border_width |-> borderpx, isfloating |-> FALSE, isfixed |-> FALSE,
     base_width |-> 0, base_height |-> 0, min_width |-> 0, min_height |-> 0,
     max_width |-> 0, max_height |-> 0, inc_width |-> 0, inc_height |-> 0,
     configured |-> 0]

LayMonitors ==
    { [window_x |-> 0, window_y |-> y, window_width |-> 1000, window_height |-> 500 - y,
       mfact |-> mfact, selected_layout |-> layout] :
          y \in {0, global_bar_height, 16}, layout \in {tile_index, monocle_index} }

\* gap_size: as configured, after resize_window has shrunk it, and 10
LayGaps == {1, gap_size, 10}

\* the numbers of clients on the monitor
LayCounts == {1, 2, 3, 10}

LayChoose ==
    /\ probe.fn = "none"
    /\ \E m \in LayMonitors, gap \in LayGaps, n \in LayCounts :
          \E sel \in {1, n} :
             probe' = [fn |-> "layout", monitor |-> m, gap |-> gap,
                       clients |-> [i \in 1..n |-> LayClient], sel |-> sel,
                       trail |-> <<>>]
    /\ UNCHANGED <<all_monitors, monitor_capacity, selected_monitor, clients,
                   previous_monitor_index, crashed, last_op,
                   mode_stack, mode_stack_top, rz>>

LayArrange ==
    /\ probe.fn = "layout"
    /\ Len(probe.trail) < MaxTrail
    /\ probe' = [probe EXCEPT
                   !.clients = arrange(probe.monitor, probe.gap, probe.clients),
                   !.trail   = Append(@, "arrange")]
    /\ UNCHANGED <<all_monitors, monitor_capacity, selected_monitor, clients,
                   previous_monitor_index, crashed, last_op,
                   mode_stack, mode_stack_top, rz>>

LayToggleFloating ==
    /\ probe.fn = "layout"
    /\ Len(probe.trail) < MaxTrail
    /\ probe' = [probe EXCEPT
                   !.clients = togglefloating_arrange(probe.monitor, probe.gap,
                                                      probe.clients, probe.sel),
                   !.trail   = Append(@, "togglefloating")]
    /\ UNCHANGED <<all_monitors, monitor_capacity, selected_monitor, clients,
                   previous_monitor_index, crashed, last_op,
                   mode_stack, mode_stack_top, rz>>

NextLayout ==
    \/ LayChoose
    \/ LayArrange
    \/ LayToggleFloating

SpecLayout == Init /\ [][NextLayout]_vars

(***************************************************************************)
(* Size hints.  SpecHints reads a WM_NORMAL_HINTS property into a client   *)
(* (updatesizehints, from manage or from PropertyNotify) and then asks     *)
(* applysizehints for a rectangle.  The client is tiled or floating: a     *)
(* client whose hints change after it was mapped keeps its isfloating.     *)
(* None of the properties has PAspect.                                     *)
(***************************************************************************)
\* updatesizehints that does not read the maximum size
updatesizehints_without_max(client, size) ==
    [client EXCEPT !.min_width  = IF "PMinSize" \in size.flags THEN size.min_width ELSE 0,
                   !.min_height = IF "PMinSize" \in size.flags THEN size.min_height ELSE 0]

\* updatesizehints.  size is what XGetWMNormalHints returns; when it fails
\* the flags are set to PSize alone.
updatesizehints(client, size) ==
    LET base_width  == IF "PBaseSize" \in size.flags THEN size.base_width
                       ELSE IF "PMinSize" \in size.flags THEN size.min_width ELSE 0
        base_height == IF "PBaseSize" \in size.flags THEN size.base_height
                       ELSE IF "PMinSize" \in size.flags THEN size.min_height ELSE 0
        inc_width   == IF "PResizeInc" \in size.flags THEN size.width_inc ELSE 0
        inc_height  == IF "PResizeInc" \in size.flags THEN size.height_inc ELSE 0
        max_width   == IF "PMaxSize" \in size.flags THEN size.max_width ELSE 0
        max_height  == IF "PMaxSize" \in size.flags THEN size.max_height ELSE 0
        min_width   == IF "PMinSize" \in size.flags THEN size.min_width
                       ELSE IF "PBaseSize" \in size.flags THEN size.base_width ELSE 0
        min_height  == IF "PMinSize" \in size.flags THEN size.min_height
                       ELSE IF "PBaseSize" \in size.flags THEN size.base_height ELSE 0
    IN [client EXCEPT
          !.base_width = base_width, !.base_height = base_height,
          !.inc_width  = inc_width,  !.inc_height  = inc_height,
          !.max_width  = max_width,  !.max_height  = max_height,
          !.min_width  = min_width,  !.min_height  = min_height,
          !.isfixed = (max_width # 0 /\ max_height # 0
                       /\ max_width = min_width /\ max_height = min_height)]

\* WM_NORMAL_HINTS properties: a fixed size of 200 x 100, alone and with a
\* base size and increments; a minimum size only; resize increments only;
\* no property
SizeHints ==
    { [flags |-> {"PMinSize", "PMaxSize"},
       base_width |-> 0, base_height |-> 0, width_inc |-> 0, height_inc |-> 0,
       min_width |-> 200, min_height |-> 100, max_width |-> 200, max_height |-> 100],
      [flags |-> {"PBaseSize", "PMinSize", "PMaxSize", "PResizeInc"},
       base_width |-> 10, base_height |-> 10, width_inc |-> 7, height_inc |-> 7,
       min_width |-> 200, min_height |-> 100, max_width |-> 200, max_height |-> 100],
      [flags |-> {"PMinSize"},
       base_width |-> 0, base_height |-> 0, width_inc |-> 0, height_inc |-> 0,
       min_width |-> 200, min_height |-> 100, max_width |-> 0, max_height |-> 0],
      [flags |-> {"PResizeInc"},
       base_width |-> 0, base_height |-> 0, width_inc |-> 300, height_inc |-> 700,
       min_width |-> 0, min_height |-> 0, max_width |-> 0, max_height |-> 0],
      [flags |-> {"PSize"},
       base_width |-> 0, base_height |-> 0, width_inc |-> 0, height_inc |-> 0,
       min_width |-> 0, min_height |-> 0, max_width |-> 0, max_height |-> 0] }

\* the monitor of the client
HintsMonitor ==
    [window_x |-> 0, window_y |-> global_bar_height,
     window_width |-> 1000, window_height |-> 500]

\* the rectangles applysizehints is asked for
HintsArgs ==
    { [x |-> x, y |-> global_bar_height, width |-> width, height |-> height,
       interact |-> i] :
        x \in {0, 1200}, width \in {0, 150, 200, 250, 1200},
        height \in {0, 100, 600}, i \in BOOLEAN }

HintsUpdate ==
    /\ probe.fn = "none"
    /\ \E size \in SizeHints, floating \in BOOLEAN :
          probe' = [fn |-> "updatesizehints", size |-> size,
                    client |-> updatesizehints([LayClient EXCEPT !.isfloating = floating],
                                               size)]
    /\ UNCHANGED <<all_monitors, monitor_capacity, selected_monitor, clients,
                   previous_monitor_index, crashed, last_op,
                   mode_stack, mode_stack_top, rz>>

HintsApply ==
    /\ probe.fn = "updatesizehints"
    /\ \E args \in HintsArgs :
          probe' = [fn |-> "applysizehints", size |-> probe.size,
                    client |-> probe.client, args |-> args,
                    result |-> applysizehints(HintsMonitor, gap_size, probe.client,
                                              args.x, args.y, args.width, args.height,
                                              args.interact)]
    /\ UNCHANGED <<all_monitors, monitor_capacity, selected_monitor, clients,
                   previous_monitor_index, crashed, last_op,
                   mode_stack, mode_stack_top, rz>>

NextHints ==
    \/ HintsUpdate
    \/ HintsApply

SpecHints == Init /\ [][NextHints]_vars

(***************************************************************************)
(* detachstack on its own.  SpecDetachstack draws one monitor whose focus  *)
(* stack holds one to MaxStack clients in any order, each with tags inside *)
(* TagMask, a selected client on the stack or none, and unlinks one of the *)
(* clients.                                                                *)
(***************************************************************************)
StackOrders(n) ==
    { s \in [1..n -> 1..n] : \A i, j \in 1..n : s[i] = s[j] => i = j }

StackWorld(stack, tags, selected_tags, selected_client) ==
    [mon |-> [i \in {0} |->
                [ZeroMonitor EXCEPT !.is_valid = TRUE,
                                    !.selected_tags = selected_tags,
                                    !.clients = stack, !.stack = stack,
                                    !.selected_client = selected_client]],
     cl  |-> [c \in DOMAIN tags |->
                [NullClient EXCEPT !.managed = TRUE, !.window = c,
                                   !.monitor = 0, !.tags = tags[c]]]]

DetachstackChoose ==
    /\ probe.fn = "none"
    /\ \E n \in 1..MaxStack :
         \E stack \in StackOrders(n), tags \in [1..n -> 1..TagMask],
            selected_tags \in 1..TagMask, selected_client \in {NoClient} \cup 1..n,
            c \in 1..n :
              probe' = [fn |-> "detachstack called", client |-> c,
                        before |-> StackWorld(stack, tags, selected_tags,
                                              selected_client)]
    /\ UNCHANGED <<all_monitors, monitor_capacity, selected_monitor, clients,
                   previous_monitor_index, crashed, last_op,
                   mode_stack, mode_stack_top, rz>>

DetachstackApply ==
    /\ probe.fn = "detachstack called"
    /\ probe' = [fn |-> "detachstack", client |-> probe.client,
                 before |-> probe.before,
                 after |-> detachstack(probe.before, probe.client)]
    /\ UNCHANGED <<all_monitors, monitor_capacity, selected_monitor, clients,
                   previous_monitor_index, crashed, last_op,
                   mode_stack, mode_stack_top, rz>>

NextDetachstack ==
    \/ DetachstackChoose
    \/ DetachstackApply

SpecDetachstack == Init /\ [][NextDetachstack]_vars

(***************************************************************************)
(* Key dispatch.  SpecKeys delivers KeyPress events to the dispatch loop   *)
(* of main().  A modifier mask is the set of its bits.  The binding tables *)
(* hold the entries of config.h in table order, for the keysyms below and  *)
(* under the names the actions have in dwm.c (push_mode_action,            *)
(* pop_mode_action, spawn_action, spawn_brave).  MODKEY is Mod4Mask.       *)
(***************************************************************************)
Modifiers == {"Shift", "Control", "Mod1", "Mod2", "Mod3", "Mod4", "Mod5"}

\* CleanMask with the Lock bit left in
CleanMask_keeps_lock(mask, numlockmask) == mask \ numlockmask

\* CleanMask: mask & ~(numlockmask|LockMask) & (ShiftMask|...|Mod5Mask)
CleanMask(mask, numlockmask) == (mask \ (numlockmask \cup {"Lock"})) \cap Modifiers

MODKEY == {"Mod4"}

Key(mod, keysym, func, arg) ==
    [mod |-> mod, keysym |-> keysym, func |-> func, arg |-> arg]

normal_mode_keys ==
    << Key(MODKEY, "t", "spawn_action", 0),
       Key(MODKEY, "f", "toggle_layout", 0),
       Key(MODKEY, "b", "push_mode_action", ModeBrowser),
       Key(MODKEY, "s", "push_mode_action", ModeSurfBrowser),
       Key(MODKEY \cup {"Shift"}, "q", "push_mode_action", ModeQuit) >>

quit_mode_keys ==
    << Key(MODKEY, "Escape", "pop_mode_action", 0),
       Key({}, "Escape", "pop_mode_action", 0),
       Key(MODKEY, "n", "pop_mode_action", 0),
       Key({}, "n", "pop_mode_action", 0),
       Key(MODKEY, "y", "quit", 0),
       Key({}, "y", "quit", 0) >>

browser_mode_keys ==
    << Key(MODKEY, "Escape", "pop_mode_action", 0),
       Key({}, "Escape", "pop_mode_action", 0),
       Key(MODKEY, "b", "spawn_brave", 0),
       Key(MODKEY, "p", "spawn_brave", 1),
       Key({}, "b", "spawn_brave", 0),
       Key({}, "p", "spawn_brave", 1) >>

surf_mode_keys ==
    << Key(MODKEY, "Escape", "pop_mode_action", 0),
       Key({}, "Escape", "pop_mode_action", 0),
       Key(MODKEY, "s", "spawn_surf", 0),
       Key({}, "s", "spawn_surf", 0),
       Key(MODKEY, "p", "spawn_surf", 1),
       Key({}, "p", "spawn_surf", 1) >>

keys ==
    [mode \in {ModeNormal, ModeQuit, ModeBrowser, ModeSurfBrowser} |->
        CASE mode = ModeNormal  -> normal_mode_keys
          [] mode = ModeQuit    -> quit_mode_keys
          [] mode = ModeBrowser -> browser_mode_keys
          [] OTHER              -> surf_mode_keys]

\* the keysyms and modifier states of the events, and the modifier that
\* updatenumlockmask found Num_Lock on (none, or Mod2)
KeySyms      == {"t", "f", "b", "s", "q", "Escape", "n", "y", "p", "x"}
EventStates  == { {}, {"Mod4"}, {"Shift"}, {"Mod4", "Shift"}, {"Mod4", "Lock"},
                  {"Mod4", "Mod2"}, {"Lock", "Mod2"}, {"Mod4", "Button1"} }
NumLockMasks == { {}, {"Mod2"} }

\* for(; i < length; i++) if (match) { func(arg); break; }: the index of the
\* entry whose action runs, 0 when the loop ends without one
RECURSIVE key_scan(_, _, _, _, _)
key_scan(key_array, keysym, state, numlockmask, i) ==
    IF i > Len(key_array) THEN 0
    ELSE IF /\ keysym = key_array[i].keysym
            /\ CleanMask(key_array[i].mod, numlockmask) = CleanMask(state, numlockmask)
         THEN i
         ELSE key_scan(key_array, keysym, state, numlockmask, i + 1)

SpawnAndReset == {"spawn_brave", "spawn_firefox", "spawn_surf"}

\* toggle_layout that sets the bit instead of flipping it
toggle_layout_sets_bit(w) ==
    [w EXCEPT !.mon[w.sel].selected_layout = monocle_index]

toggle_layout(w) ==
    [w EXCEPT !.mon[w.sel].selected_layout = BitXor(@, 1)]

\* the world a bound action leaves.  spawn_and_reset_mode ends in focus(NULL).
key_func(w, func) ==
    IF func = "toggle_layout" THEN toggle_layout(w)
    ELSE IF func \in SpawnAndReset THEN focus(w, NoClient)
    ELSE w

\* quit clears global_running and the event loop ends
global_running == probe.fn = "keypress" => probe.running

KeyPress ==
    /\ crashed = "no"
    /\ global_running
    /\ \E keysym \in KeySyms, state \in EventStates, numlockmask \in NumLockMasks :
         LET current_mode == mode_stack[mode_stack_top]
             key_array    == keys[current_mode]
             i            == key_scan(key_array, keysym, state, numlockmask, 1)
             func         == IF i = 0 THEN "none" ELSE key_array[i].func
             w            == key_func(World, func)
         IN /\ probe' = [fn |-> "keypress", keysym |-> keysym, state |-> state,
                         numlockmask |-> numlockmask, mode |-> current_mode,
                         index |-> i, func |-> func, running |-> func # "quit"]
            /\ all_monitors' = w.mon
            /\ selected_monitor' = w.sel
            /\ clients' = w.cl
            /\ CASE func = "push_mode_action" -> push_mode(key_array[i].arg)
                 [] func = "pop_mode_action" ->
                        /\ mode_stack_top' = pop_mode(mode_stack_top)
                        /\ last_op' = IF mode_stack_top > 0 THEN "pop_mode"
                                      ELSE "pop_mode ignored"
                        /\ mode_stack' = mode_stack
                 [] func \in SpawnAndReset ->
                        /\ mode_stack_top' = reset_mode(mode_stack_top)
                        /\ last_op' = "focus"
                        /\ mode_stack' = mode_stack
                 [] OTHER -> UNCHANGED <<mode_stack, mode_stack_top, last_op>>
    /\ UNCHANGED <<monitor_capacity, previous_monitor_index, crashed, rz>>

NextKeys ==
    \/ KeyPress

SpecKeys == Init /\ [][NextKeys]_vars

(***************************************************************************)
(* manage with every hint.  SpecManage maps windows that may carry a       *)
(* WM_TRANSIENT_FOR hint (for a managed window, for a window that is not   *)
(* managed, or none), fixed-size hints, the dialog type and the fullscreen *)
(* state, after tag and focusmon have moved tags and the selection.  probe *)
(* keeps what the mapped window carried.                                   *)
(***************************************************************************)
MapRequestHinted ==
    /\ crashed = "no" /\ previous_monitor_index' = previous_monitor_index
    /\ \E window \in Windows, trans \in Windows \cup {None},
          isfixed \in BOOLEAN, dialog \in BOOLEAN, fullscreen \in BOOLEAN :
          /\ wintoclient(World, window) = NoClient
          /\ FreeClients # {}
          /\ LET c  == NewClient(window)
                 w1 == manage(World, c, window, trans, isfixed, dialog, fullscreen)
             IN /\ Land(w1, Done(w1))
                /\ probe' = [fn |-> "manage", client |-> c, window |-> window,
                             trans |-> trans, isfixed |-> isfixed,
                             dialog |-> dialog, fullscreen |-> fullscreen]

NextManage ==
    \/ MapRequestHinted
    \/ KeyTag
    \/ KeyFocusMon

SpecManage == Init /\ [][NextManage]_vars

(***************************************************************************)
(* toggle_layout and setmfact.  SpecLayoutKeys presses their keys on one   *)
(* or two monitors, with focusmon to change the selected monitor and       *)
(* ConfigureNotify to add and remove monitors.  last_op names the command; *)
(* probe keeps the argument of setmfact and whether it called arrange.     *)
(***************************************************************************)
\* Between(Val, Min, Max): ((uint64_t)(Val - Min)) <= (Max - Min).  A negative
\* difference becomes a value of 2^63 or more, above any Max - Min of an int.
Between(Val, Min, Max) ==
    IF Val - Min < 0 THEN FALSE ELSE Val - Min <= Max - Min

\* setmfact without the range test
setmfact_unchecked(w, i) ==
    [w EXCEPT !.mon[w.sel].mfact = @ + i, !.ret = 1]

\* setmfact: w.ret is 1 when arrange was called
setmfact(w, i) ==
    LET new_fact == w.mon[w.sel].mfact + i
    IN IF ~Between(new_fact, 5, 95) THEN [w EXCEPT !.ret = 0]
       ELSE [w EXCEPT !.mon[w.sel].mfact = new_fact, !.ret = 1]

\* the arguments config.h binds to setmfact
MfactArgs == {-5, 5}

KeyToggleLayout ==
    /\ crashed = "no" /\ previous_monitor_index' = previous_monitor_index
    /\ Commit(toggle_layout(World), "toggle_layout")

KeySetMfact ==
    /\ crashed = "no" /\ previous_monitor_index' = previous_monitor_index
    /\ \E i \in MfactArgs :
          /\ Land(setmfact(World, i), "setmfact")
          /\ probe' = [fn |-> "setmfact", i |-> i,
                       arranged |-> (setmfact(World, i).ret = 1)]

NextLayoutKeys ==
    \/ KeyToggleLayout
    \/ KeySetMfact
    \/ KeyFocusMon
    \/ ConfigureNotify

SpecLayoutKeys == Init /\ [][NextLayoutKeys]_vars

(***************************************************************************)
(* Interactive move and resize.  A ButtonPress with MODKEY on a client     *)
(* window focuses the client and enters movemouse (Button1) or resizemouse *)
(* (Button3); SpecDrag then feeds the inner XMaskEvent loop one event at a *)
(* time.  probe holds the drag: the client taken at its start, the last    *)
(* event read and whether the loop is still running.  A motion event is    *)
(* throttled or not, and far (more than snap from the client's rectangle)  *)
(* or not; the rectangles themselves are not tracked.                      *)
(***************************************************************************)
\* the loop condition read as "until a button event"
drag_loops_until_button(type) == type \notin {"ButtonRelease", "ButtonPress"}

\* do { ... } while (ev.type != ButtonRelease)
drag_loops(type) == type # "ButtonRelease"

\* case MotionNotify of both loops: togglefloating(NULL) acts on the selected
\* monitor's selected client
drag_motion(w, client, throttled, far) ==
    IF throttled THEN w
    ELSE IF ~w.cl[client].isfloating /\ far THEN togglefloating(w)
    ELSE w

\* maprequest inside the loop, for a plain window
drag_maprequest(w, window, c) ==
    IF wintoclient(w, window) # NoClient THEN w
    ELSE manage(w, c, window, None, FALSE, FALSE, FALSE)

\* after the loop: sendmon when recttomon puts the client on another monitor
drag_release(w, client, monitor_index) ==
    IF monitor_index # w.sel
    THEN focus([sendmon(w, client, monitor_index) EXCEPT !.sel = monitor_index], NoClient)
    ELSE w

DragEvents ==
    { [type |-> t, window |-> None, throttled |-> FALSE, far |-> FALSE] :
         t \in {"Expose", "ButtonPress", "ButtonRelease"} }
    \cup { [type |-> t, window |-> x, throttled |-> FALSE, far |-> FALSE] :
         t \in {"MapRequest", "ConfigureRequest"}, x \in Windows }
    \cup { [type |-> "MotionNotify", window |-> None, throttled |-> th, far |-> f] :
         th \in BOOLEAN, f \in BOOLEAN }

Dragging == probe.fn \in {"movemouse", "resizemouse"} /\ probe.running

DragStart ==
    /\ crashed = "no" /\ previous_monitor_index' = previous_monitor_index
    /\ ~Dragging
    /\ \E window \in Windows, func \in {"movemouse", "resizemouse"} :
         LET c  == wintoclient(World, window)
             w1 == IF World.cl[c].monitor # World.sel
                   THEN focus([World EXCEPT !.sel = World.cl[c].monitor], NoClient)
                   ELSE World
             w2 == focus(w1, c)
             client == w2.mon[w2.sel].selected_client
         IN /\ c # NoClient
            /\ client # NoClient /\ ~w2.cl[client].isfullscreen
            /\ Land(w2, "focus")
            /\ probe' = [fn |-> func, client |-> client, running |-> TRUE,
                         ev |-> [type |-> "ButtonPress", window |-> window,
                                 throttled |-> FALSE, far |-> FALSE]]

DragEvent ==
    /\ crashed = "no" /\ previous_monitor_index' = previous_monitor_index
    /\ Dragging
    /\ \E ev \in DragEvents :
         /\ (ev.type = "MapRequest" /\ wintoclient(World, ev.window) = NoClient)
               => FreeClients # {}
         /\ \E monitor_index \in ValidMonitors(World) :
              LET w == CASE ev.type = "ConfigureRequest" ->
                               configurerequest(World, ev.window, FALSE, 0)
                         [] ev.type = "MapRequest" ->
                               drag_maprequest(World, ev.window, NewClient(ev.window))
                         [] ev.type = "MotionNotify" ->
                               drag_motion(World, probe.client, ev.throttled, ev.far)
                         [] ev.type = "ButtonRelease" ->
                               drag_release(World, probe.client,
                                            IF World.cl[probe.client].isfloating
                                            THEN monitor_index ELSE World.sel)
                         [] OTHER -> World
              IN /\ Land(w, Done(w))
                 /\ probe' = [probe EXCEPT !.running = drag_loops(ev.type), !.ev = ev]

NextDrag ==
    \/ ~Dragging /\ MapRequest
    \/ DragStart
    \/ DragEvent

SpecDrag == Init /\ [][NextDrag]_vars


(***************************************************************************)
(* Urgency: seturgent, updatewmhints, the _NET_ACTIVE_WINDOW client        *)
(* message and the WM_HINTS property notification                          *)
(***************************************************************************)
activate_any(w, window) ==
    IF wintoclient(w, window) # NoClient
    THEN [w EXCEPT !.cl[wintoclient(w, window)].isurgent = TRUE]
    ELSE w

\* case ClientMessage, message_type == netatom[NetActiveWindow]
activate(w, window) ==
    IF /\ wintoclient(w, window) # NoClient
       /\ wintoclient(w, window) # w.mon[w.sel].selected_client
       /\ ~w.cl[wintoclient(w, window)].isurgent
    THEN [w EXCEPT !.cl[wintoclient(w, window)].isurgent = TRUE]
    ELSE w

\* urgent: whether the window's WM_HINTS carry XUrgencyHint
updatewmhints(w, client, urgent) ==
    IF client = w.mon[w.sel].selected_client /\ urgent
    THEN w
    ELSE [w EXCEPT !.cl[client].isurgent = urgent]

\* case PropertyNotify, atom XA_WM_HINTS
propertynotify_wmhints(w, window, urgent) ==
    IF wintoclient(w, window) # NoClient
    THEN updatewmhints(w, wintoclient(w, window), urgent)
    ELSE w

ActivateRequest ==
    /\ crashed = "no" /\ previous_monitor_index' = previous_monitor_index
    /\ \E window \in Windows :
          Commit(activate(World, window), "none")

WMHintsNotify ==
    /\ crashed = "no" /\ previous_monitor_index' = previous_monitor_index
    /\ \E window \in Windows, urgent \in BOOLEAN :
          Commit(propertynotify_wmhints(World, window, urgent), "none")

NextUrgent ==
    \/ MapRequest
    \/ ActivateRequest
    \/ WMHintsNotify
    \/ ButtonPress
    \/ EnterNotify
    \/ MotionNotify
    \/ KeyFocusMon
    \/ KeyView

SpecUrgent == Init /\ [][NextUrgent]_vars


(***************************************************************************)
(* Fullscreen and geometry: setfullscreen, configurerequest and the root   *)
(* ConfigureNotify on one client's rectangle and its old* fields           *)
(***************************************************************************)
\* resizeclient with the old geometry it saves:
\*   client->oldx = client->x; client->x = wc.x = x + gapoffset; ...
resizeclient_rect(gap, client, x, y, width, height) ==
    [resizeclient(gap, client, x, y, width, height) EXCEPT
        !.oldx = client.x, !.oldy = client.y,
        !.old_width = client.width, !.old_height = client.height]

\* setfullscreen on the client's record; m is all_monitors[client->monitor].
\* arrange() after leaving fullscreen moves tiled clients only.
setfullscreen_rect(m, gap, client, fullscreen) ==
    IF fullscreen /\ ~client.isfullscreen
    THEN resizeclient_rect(gap,
             [client EXCEPT !.isfullscreen = TRUE,
                            !.oldstate = client.isfloating,
                            !.old_border_width = client.border_width,
                            !.border_width = 0,
                            !.isfloating = TRUE],
             m.screen_x, m.screen_y, m.screen_width, m.screen_height)
    ELSE IF ~fullscreen /\ client.isfullscreen
    THEN resizeclient_rect(gap,
             [client EXCEPT !.isfullscreen = FALSE,
                            !.isfloating = client.oldstate,
                            !.border_width = client.old_border_width,
                            !.x = client.oldx, !.y = client.oldy,
                            !.width = client.old_width, !.height = client.old_height],
             client.oldx, client.oldy, client.old_width, client.old_height)
    ELSE client

\* configurerequest for a managed client; ev.value_mask is a set of CW names
configurerequest_move(m, client, ev) ==
    [client EXCEPT
        !.oldx = IF "CWX" \in ev.value_mask THEN client.x ELSE @,
        !.x    = IF "CWX" \in ev.value_mask THEN m.screen_x + ev.x ELSE @,
        !.oldy = IF "CWY" \in ev.value_mask THEN client.y ELSE @,
        !.y    = IF "CWY" \in ev.value_mask THEN m.screen_y + ev.y ELSE @,
        !.old_width  = IF "CWWidth" \in ev.value_mask THEN client.width ELSE @,
        !.width      = IF "CWWidth" \in ev.value_mask THEN ev.width ELSE @,
        !.old_height = IF "CWHeight" \in ev.value_mask THEN client.height ELSE @,
        !.height     = IF "CWHeight" \in ev.value_mask THEN ev.height ELSE @]

configurerequest_center(m, gap, c) ==
    [c EXCEPT
        !.x = IF c.x + c.width > m.screen_x + m.screen_width
              THEN m.screen_x + (m.screen_width \div 2 - GappedClientWidth(c, gap) \div 2)
              ELSE @,
        !.y = IF c.y + c.height > m.screen_y + m.screen_height
              THEN m.screen_y + (m.screen_height \div 2 - GappedClientHeight(c, gap) \div 2)
              ELSE @]

configurerequest_rect(m, gap, client, ev) ==
    IF "CWBorderWidth" \in ev.value_mask
    THEN [client EXCEPT !.border_width = ev.border_width]
    ELSE IF client.isfloating
    THEN configurerequest_center(m, gap, configurerequest_move(m, client, ev))
    ELSE client

\* case ConfigureNotify on the root after the screen became m:
\*   if (client->isfullscreen) resizeclient(client, monitor->screen_x, ...)
confignotify_rect(m, gap, client) ==
    IF client.isfullscreen
    THEN resizeclient_rect(gap, client, m.screen_x, m.screen_y,
                           m.screen_width, m.screen_height)
    ELSE client

FsScreens ==
    { [screen_x |-> 0, screen_y |-> 0, screen_width |-> w, screen_height |-> h] :
         w \in {800, 1000}, h \in {500, 600} }

FsClients ==
    { [x |-> x, y |-> 20, width |-> width, height |-> 50,
       oldx |-> 0, oldy |-> 0, old_width |-> 0, old_height |-> 0,
       border_width |-> b, old_border_width |-> 0,
       isfloating |-> f, oldstate |-> FALSE, isfullscreen |-> FALSE,
       configured |-> 0] :
         x \in {10, 300}, width \in {100, 400}, b \in {0, borderpx}, f \in BOOLEAN }

FsRequests ==
    { [value_mask |-> mask, x |-> 5, y |-> 7, width |-> width, height |-> 40,
       border_width |-> 1] :
         mask \in { {}, {"CWBorderWidth"}, {"CWX", "CWY"}, {"CWWidth", "CWHeight"},
                    {"CWX", "CWY", "CWWidth", "CWHeight"} },
         width \in {60, 2000} }

FsKeep ==
    UNCHANGED <<all_monitors, monitor_capacity, selected_monitor, clients,
                previous_monitor_index, crashed, last_op,
                mode_stack, mode_stack_top, rz>>

FsChoose ==
    /\ probe.fn = "none"
    /\ \E client \in FsClients, m \in FsScreens :
          probe' = [fn |-> "setfullscreen", phase |-> "normal", monitor |-> m,
                    client |-> client, before |-> client, events |-> 0]
    /\ FsKeep

\* setfullscreen(client, 1); before keeps the client as it was just before
FsEnter ==
    /\ probe.fn = "setfullscreen" /\ probe.phase = "normal"
    /\ probe' = [probe EXCEPT
                    !.phase = "fullscreen", !.before = probe.client,
                    !.client = setfullscreen_rect(probe.monitor, gap_size,
                                                  probe.client, TRUE)]
    /\ FsKeep

\* the root window changed size: updategeom stores the new screen rectangle
FsConfigureNotify ==
    /\ probe.fn = "setfullscreen" /\ probe.phase = "fullscreen"
    /\ probe.events < MaxTrail
    /\ \E m \in FsScreens :
          /\ m # probe.monitor
          /\ probe' = [probe EXCEPT
                          !.monitor = m, !.events = @ + 1,
                          !.client = confignotify_rect(m, gap_size, probe.client)]
    /\ FsKeep

FsConfigureRequest ==
    /\ probe.fn = "setfullscreen" /\ probe.phase = "fullscreen"
    /\ probe.events < MaxTrail
    /\ \E ev \in FsRequests :
          probe' = [probe EXCEPT
                       !.events = @ + 1,
                       !.client = configurerequest_rect(probe.monitor, gap_size,
                                                        probe.client, ev)]
    /\ FsKeep

\* setfullscreen(client, 0)
FsLeave ==
    /\ probe.fn = "setfullscreen" /\ probe.phase = "fullscreen"
    /\ probe' = [probe EXCEPT
                    !.phase = "restored",
                    !.client = setfullscreen_rect(probe.monitor, gap_size,
                                                  probe.client, FALSE)]
    /\ FsKeep

NextRoundTrip ==
    \/ FsChoose
    \/ FsEnter
    \/ FsConfigureNotify
    \/ FsConfigureRequest
    \/ FsLeave

SpecRoundTrip == Init /\ [][NextRoundTrip]_vars


(***************************************************************************)
(* The commands that write selected_client, tags and the client lists:     *)
(* manage with its hints, unmanage, view, tag, tagmon (sendmon) and        *)
(* focusmon to change the selected monitor.                                *)
(***************************************************************************)
\* maprequest for a window with or without a WM_TRANSIENT_FOR hint, no other
\* hint set
MapRequestTransient ==
    /\ crashed = "no" /\ previous_monitor_index' = previous_monitor_index
    /\ \E window \in Windows, trans \in Windows \cup {None} :
          /\ wintoclient(World, window) = NoClient
          /\ FreeClients # {}
          /\ LET w1 == manage(World, NewClient(window), window, trans,
                              FALSE, FALSE, FALSE)
             IN Commit(w1, Done(w1))

NextSelected ==
    \/ MapRequestTransient
    \/ UnmapNotify
    \/ KeyView
    \/ KeyTag
    \/ KeyTagMon
    \/ KeyFocusMon

SpecSelected == Init /\ [][NextSelected]_vars


(***************************************************************************)
(* tile on short monitors: SpecTile tiles two to ten clients on window     *)
(* rectangles from 12 to 500 pixels high                                   *)
(***************************************************************************)
TileMonitors ==
    { [window_x |-> 0, window_y |-> y, window_width |-> 1000, window_height |-> h,
       mfact |-> mfact, selected_layout |-> tile_index] :
          y \in {0, global_bar_height}, h \in {12, 40, 500} }

TileCounts == {2, 3, 5, 10}

TileChoose ==
    /\ probe.fn = "none"
    /\ \E m \in TileMonitors, gap \in LayGaps, n \in TileCounts :
          probe' = [fn |-> "tile", monitor |-> m, gap |-> gap,
                    clients |-> [i \in 1..n |-> LayClient], arranged |-> FALSE]
    /\ FsKeep

TileArrange ==
    /\ probe.fn = "tile" /\ ~probe.arranged
    /\ probe' = [probe EXCEPT
                    !.clients = tile(probe.monitor, probe.gap, probe.clients),
                    !.arranged = TRUE]
    /\ FsKeep

NextTile ==
    \/ TileChoose
    \/ TileArrange

SpecTile == Init /\ [][NextTile]_vars


(***************************************************************************)
(* make_main_client.  SpecMaster presses its key among the handlers that   *)
(* change which clients are tiled, visible and selected; probe.press       *)
(* alternates so that every press is a step that changes probe.            *)
(***************************************************************************)
KeyMakeMainClientPress ==
    /\ crashed = "no" /\ previous_monitor_index' = previous_monitor_index
    /\ Land(make_main_client(World), Done(make_main_client(World)))
    /\ probe' = [fn |-> "make_main_client",
                 press |-> IF probe.fn = "make_main_client" THEN 1 - probe.press ELSE 0]

NextMaster ==
    \/ MapRequest
    \/ UnmapNotify
    \/ EnterNotify
    \/ KeyView
    \/ KeyTag
    \/ KeyTagMon
    \/ KeyFocusMon
    \/ KeyFocusStack
    \/ KeyToggleFloating
    \/ KeyMakeMainClientPress

SpecMaster == Init /\ [][NextMaster]_vars


(***************************************************************************)
(* dirtomon, one pass through its for(;;) loop per step.  SpecDirtomon     *)
(* runs it on tables of one to MaxSlots slots whose selected slot is valid.*)
(* p is [cap, valid, sel, dir, monitor_index, pc].                         *)
(***************************************************************************)
MaxSlots == 4

\* the pass that does not stop on coming back to selected_monitor
dirtomon_pass_ignores_selected(p) ==
    LET end_point  == IF p.dir > 0 THEN p.cap ELSE -1
        loop_point == IF p.dir > 0 THEN 0 ELSE p.cap - 1
        m1 == p.monitor_index + (IF p.dir > 0 THEN 1 ELSE -1)
        m2 == IF m1 = end_point THEN loop_point ELSE m1
    IN [p EXCEPT !.monitor_index = m2,
                 !.pc = IF m2 \in p.valid \ {p.sel} THEN "return" ELSE "loop"]

dirtomon_pass(p) ==
    LET end_point  == IF p.dir > 0 THEN p.cap ELSE -1
        loop_point == IF p.dir > 0 THEN 0 ELSE p.cap - 1
        m1 == p.monitor_index + (IF p.dir > 0 THEN 1 ELSE -1)
        m2 == IF m1 = end_point THEN loop_point ELSE m1
        m3 == IF m2 # p.sel /\ m2 = end_point THEN loop_point ELSE m2
    IN [p EXCEPT !.monitor_index = m3,
                 !.pc = IF m2 = p.sel \/ m3 \in p.valid THEN "return" ELSE "loop"]

DirTables ==
    { [cap |-> cap, valid |-> valid, sel |-> sel] :
         cap \in 1..MaxSlots, valid \in SUBSET (0..(MaxSlots - 1)), sel \in 0..(MaxSlots - 1) }

\* dirtomon(dir) is entered: int monitor_index = selected_monitor
DirCall ==
    /\ probe.fn = "none"
    /\ \E t \in DirTables, dir \in {-1, 1} :
          /\ t.valid \subseteq 0..(t.cap - 1)
          /\ t.sel \in t.valid
          /\ probe' = [fn |-> "dirtomon", cap |-> t.cap, valid |-> t.valid,
                       sel |-> t.sel, dir |-> dir, monitor_index |-> t.sel,
                       pc |-> "loop"]
    /\ FsKeep

DirPass ==
    /\ probe.fn = "dirtomon" /\ probe.pc = "loop"
    /\ probe' = dirtomon_pass(probe)
    /\ FsKeep

NextDirtomon ==
    \/ DirCall
    \/ DirPass

SpecDirtomon == Init /\ [][NextDirtomon]_vars /\ WF_vars(DirPass)

(***************************************************************************)
(* Properties                                                              *)
(***************************************************************************)
NoDuplicates(seq) == \A i, j \in 1..Len(seq) : seq[i] = seq[j] => i = j

Managed == { c \in ClientIds : clients[c].managed }

\* the slots whose membership list / focus stack hold c, in a monitor table
InClients(mon, c) == { s \in Slots : c \in SeqSet(mon[s].clients) }
InStack(mon, c)   == { s \in Slots : c \in SeqSet(mon[s].stack) }

\* C1: monitor removal in updategeom: every client that was on a monitor that
\* a step turns from valid to invalid is afterwards in the membership list and
\* the focus stack of exactly one slot, that slot is inside the table and valid,
\* and the client's tags are what they were before the step.
C1_RemovalMovesClientsToValidMonitor ==
    [][ \A m \in Slots :
          (all_monitors[m].is_valid /\ ~all_monitors'[m].is_valid) =>
             \A c \in ClientIds :
                (clients[c].managed /\ clients[c].monitor = m) =>
                   /\ clients'[c].managed
                   /\ clients'[c].tags = clients[c].tags
                   /\ \E s \in 0..(monitor_capacity' - 1) :
                        /\ all_monitors'[s].is_valid
                        /\ InClients(all_monitors', c) = {s}
                        /\ InStack(all_monitors', c) = {s} ]_vars

\* C2: in every reachable state each slot's membership list and focus stack
\* hold the same set of clients, and neither list holds a client twice.
C2_ListsHoldTheSameClients ==
    \A m \in Slots :
        /\ SeqSet(all_monitors[m].clients) = SeqSet(all_monitors[m].stack)
        /\ NoDuplicates(all_monitors[m].clients)
        /\ NoDuplicates(all_monitors[m].stack)

\* two clients share a monitor and its two lists order them differently
C2_Witness ==
    \E m \in Slots :
        /\ Len(all_monitors[m].clients) = 2
        /\ all_monitors[m].clients # all_monitors[m].stack
        /\ all_monitors[m].is_valid

\* C3: every managed client's tags are nonzero and have no bit outside TagMask.
C3_ClientTagsWithinMask ==
    \A c \in Managed :
        /\ clients[c].tags # 0
        /\ BitAnd(clients[c].tags, TagMask) = clients[c].tags

\* a client was retagged: it carries every tag while its monitor shows one
C3_Witness ==
    \E c \in Managed :
        /\ clients[c].tags = TagMask
        /\ all_monitors[clients[c].monitor].selected_tags = 1

\* C4: when the last thing a handler did was a call of focus(), the selected
\* monitor's selected_client is none or a client visible under its monitor's
\* selected_tags at the head of that monitor's focus stack, and it is none
\* only if the selected monitor's stack holds no visible client.
C4_FocusPostcondition ==
    (last_op = "focus") =>
        LET sc == all_monitors[selected_monitor].selected_client
        IN IF sc # NoClient
           THEN /\ clients[sc].managed
                /\ IsVisible(World, sc)
                /\ all_monitors[clients[sc].monitor].stack # <<>>
                /\ Head(all_monitors[clients[sc].monitor].stack) = sc
           ELSE FirstVisible(World, all_monitors[selected_monitor].stack) = NoClient

\* focus() chose among two clients of the selected monitor, one of them hidden
C4_Witness ==
    /\ last_op = "focus"
    /\ all_monitors[selected_monitor].selected_client # NoClient
    /\ Len(all_monitors[selected_monitor].stack) = 2
    /\ \E c \in SeqSet(all_monitors[selected_monitor].stack) : ~IsVisible(World, c)

\* C5: after any sequence of push_mode, pop_mode and reset_mode the top index
\* is inside the mode_stack array (0..7), and a push_mode at a full stack
\* (top index 7) changes neither the top index nor a stored mode.
C5_ModeStackBound ==
    [][ /\ mode_stack_top' \in 0..(MODE_STACK_LEN - 1)
        /\ (mode_stack_top = MODE_STACK_LEN - 1 /\ last_op' \in {"push_mode", "push_mode ignored"})
              => UNCHANGED <<mode_stack, mode_stack_top>> ]_vars

\* C6: pop_mode at top index 0 leaves the top index and the stack contents
\* unchanged; the top index is never negative and the base frame always
\* holds ModeNormal.
C6_PopAtBaseIsNoOp ==
    [][ /\ (mode_stack_top = 0 /\ last_op' \in {"pop_mode", "pop_mode ignored"})
              => UNCHANGED <<mode_stack, mode_stack_top>>
        /\ mode_stack_top' >= 0
        /\ mode_stack'[0] = ModeNormal ]_vars

\* pop_mode was called with only the base frame on a stack that had been used
C6_Witness ==
    /\ last_op = "pop_mode ignored"
    /\ mode_stack_top = 0
    /\ mode_stack[1] # ModeNormal

\* C7: a second resize() with the arguments of the first, directly after it,
\* does not call resizeclient again.
C7_ResizeIdempotent ==
    (rz.pc = "twice") => rz.client.configured = rz.first

\* C8: every valid monitor's selected_tags is nonzero and within TagMask.
C8_SelectedTagsWithinMask ==
    \A m \in 0..(monitor_capacity - 1) :
        all_monitors[m].is_valid =>
            /\ all_monitors[m].selected_tags # 0
            /\ BitAnd(all_monitors[m].selected_tags, TagMask) = all_monitors[m].selected_tags

\* a view or toggleview has moved a valid monitor to the last tag alone
C8_Witness ==
    \E m \in 0..(monitor_capacity - 1) :
        /\ all_monitors[m].is_valid
        /\ all_monitors[m].selected_tags = Pow2(NumTags - 1)

\* C9: every managed client's monitor index is inside the table and names a
\* valid slot, and no invalid slot holds a client in either of its lists.
C9_ClientsLiveOnValidMonitors ==
    /\ \A c \in Managed :
          /\ clients[c].monitor \in 0..(monitor_capacity - 1)
          /\ all_monitors[clients[c].monitor].is_valid
    /\ \A m \in Slots :
          ~all_monitors[m].is_valid =>
              all_monitors[m].clients = <<>> /\ all_monitors[m].stack = <<>>

\* C10: selected_monitor is inside the table and names a valid slot.
C10_SelectedMonitorValid ==
    /\ selected_monitor \in 0..(monitor_capacity - 1)
    /\ all_monitors[selected_monitor].is_valid

\* the monitor the pointer was last seen on has been removed
C10_Witness ==
    /\ crashed = "no"
    /\ previous_monitor_index = 1
    /\ ~all_monitors[1].is_valid
    /\ selected_monitor = 0

\* C11: next_valid_monitor(s) terminates, and whenever at least one slot of the
\* table is valid it returns an in-range index of a valid slot: the first valid
\* slot found searching circularly from s.  (Termination is the evaluation of
\* the call; the returned index is what the invariant constrains.)
C11_NextValidMonitorFindsValidSlot ==
    (probe.fn = "next_valid_monitor" /\ probe.valid # {})
        => /\ probe.result \in 0..(probe.capacity - 1)
           /\ probe.result \in probe.valid
           /\ \E k \in 0..(probe.capacity - 1) :
                /\ probe.result = (probe.start_index + k) % probe.capacity
                /\ \A j \in 0..(k - 1) :
                      ((probe.start_index + j) % probe.capacity) \notin probe.valid

\* C12: after updategeom the number of valid monitor slots equals the number
\* of distinct screen rectangles reported: a screen whose (x, y, width,
\* height) repeats an earlier screen of the list gets no monitor of its own.
C12_OneMonitorPerDistinctScreen ==
    probe.fn = "updategeom"
        => Cardinality({ i \in DOMAIN probe.after.mon : probe.after.mon[i].is_valid })
               = Cardinality({ probe.info[i] : i \in DOMAIN probe.info })

\* C13: updategeom returns nonzero exactly when the call changed the monitor
\* table: nonzero whenever a monitor was created, had its geometry updated or
\* was removed (with or without clients on it), and zero only when no monitor
\* slot and no client's monitor assignment changed.
C13_ReturnsWhetherAnythingChanged ==
    probe.fn = "updategeom"
        => (probe.result # 0
              <=> (probe.before # probe.after \/ probe.clients_before # probe.clients_after))

\* C14: createmon returns the index of a slot that was not valid before the
\* call (a tombstoned slot if there is one, otherwise the first slot appended
\* by doubling the capacity), marks it valid with selected_tags = 1 and the
\* configured mfact and bar settings, and leaves the index and the contents of
\* every other monitor slot unchanged.
C14_CreatemonFrame ==
    probe.fn = "createmon"
        => LET before == probe.before
               after  == probe.after
               result == probe.result
               tombstones == { i \in DOMAIN before.mon : ~before.mon[i].is_valid }
           IN /\ result \in DOMAIN after.mon
              /\ IF tombstones # {}
                 THEN result \in tombstones /\ after.cap = before.cap
                 ELSE result = before.cap /\ after.cap = 2 * before.cap
              /\ after.mon[result].is_valid
              /\ after.mon[result].selected_tags = 1
              /\ after.mon[result].mfact = mfact
              /\ after.mon[result].showbar /\ after.mon[result].topbar
              /\ \A i \in DOMAIN before.mon \ {result} : after.mon[i] = before.mon[i]
              /\ \A i \in DOMAIN after.mon \ (DOMAIN before.mon \cup {result}) :
                    ~after.mon[i].is_valid

\* createmon has doubled a full table whose monitors hold clients
C14_Witness ==
    /\ probe.fn = "createmon"
    /\ probe.after.cap = 2 * probe.before.cap
    /\ probe.result = probe.before.cap
    /\ \E i \in DOMAIN probe.before.mon : probe.before.mon[i].clients # <<>>

\* C15: a fullscreen client is floating and has border width 0 in every
\* reachable state while its fullscreen flag is set, whatever the order of
\* setfullscreen, togglefloating, configure requests (with or without a
\* border width), property changes and arrange.
C15_FullscreenIsFloatingWithoutBorder ==
    \A c \in Managed :
        clients[c].isfullscreen
            => clients[c].isfloating /\ clients[c].border_width = 0

\* the rows of the monitor a tiled client takes: its window, its border and
\* the gap below it
SlotHeight(c, gap) == c.height + 2 * c.border_width + gap

RECURSIVE SumSlots(_, _, _)
SumSlots(cs, i, gap) ==
    IF i > Len(cs) THEN 0 ELSE SlotHeight(cs[i], gap) + SumSlots(cs, i + 1, gap)

\* the probe holds a tile arrangement of N clients, none of them floating
Tiled(n) ==
    /\ probe.fn = "layout"
    /\ probe.trail = <<"arrange">>
    /\ probe.monitor.selected_layout = tile_index
    /\ Len(probe.clients) = n

\* C16: on a monitor of window height H with N visible tiled clients, N in
\* {1, 2, 3, 10}, the heights tile gives the stack clients add up to within
\* one pixel of H (the gap at the top edge counted in), the remainder of the
\* integer division going to the last stack client.  With N = 1 the only
\* client takes the column.
C16_StackHeightsFillTheWindow ==
    \A n \in {1, 2, 3, 10} :
        Tiled(n)
            => LET total == IF n = 1
                            THEN probe.clients[1].height + 2 * probe.gap
                            ELSE probe.gap + SumSlots(probe.clients, 2, probe.gap)
               IN /\ total - probe.monitor.window_height <= 1
                  /\ probe.monitor.window_height - total <= 1

\* the scenario of C17: window rectangle (0, 0, 1000, 500), gap 10, mfact 55,
\* three tiled clients A (head), B, C
TiledScenario ==
    /\ Tiled(3)
    /\ probe.gap = 10
    /\ probe.monitor.mfact = 55
    /\ probe.monitor.window_x = 0 /\ probe.monitor.window_y = 0
    /\ probe.monitor.window_width = 1000 /\ probe.monitor.window_height = 500

C18_MonocleFillsTheWindow ==
    (/\ probe.fn = "layout"
     /\ probe.trail # <<>>
     /\ probe.monitor.selected_layout = monocle_index)
        => \A i \in DOMAIN probe.clients :
              ~probe.clients[i].isfloating
                  => /\ probe.clients[i].x = probe.monitor.window_x
                     /\ probe.clients[i].y = probe.monitor.window_y
                     /\ probe.clients[i].width  = probe.monitor.window_width
                     /\ probe.clients[i].height = probe.monitor.window_height

\* C19: in the tile layout, when the only client of the monitor is toggled
\* floating and toggled back, its rectangle after the second toggle is the
\* monitor's window rectangle.
C19_FloatingRoundTripFillsTheWindow ==
    (/\ probe.fn = "layout"
     /\ probe.monitor.selected_layout = tile_index
     /\ Len(probe.clients) = 1
     /\ Len(probe.trail) >= 2
     /\ probe.trail[Len(probe.trail)] = "togglefloating"
     /\ probe.trail[Len(probe.trail) - 1] = "togglefloating"
     /\ ~probe.clients[1].isfloating)
        => /\ probe.clients[1].x = probe.monitor.window_x
           /\ probe.clients[1].y = probe.monitor.window_y
           /\ probe.clients[1].width  = probe.monitor.window_width
           /\ probe.clients[1].height = probe.monitor.window_height

\* the probe's client was given hints with min = max = 200 x 100
FixedSizeHints ==
    /\ probe.fn \in {"updatesizehints", "applysizehints"}
    /\ {"PMinSize", "PMaxSize"} \subseteq probe.size.flags
    /\ probe.size.min_width = 200 /\ probe.size.max_width = 200
    /\ probe.size.min_height = 100 /\ probe.size.max_height = 100

\* C20 as stated: a client whose hints give min_width = max_width = 200 and
\* min_height = max_height = 100 gets isfixed from updatesizehints, and
\* applysizehints returns width 200 and height 100 for every requested
\* rectangle, whether the client is floating or tiled.
C20_FixedSizeAlways ==
    FixedSizeHints
        => /\ probe.client.isfixed
           /\ probe.fn = "applysizehints"
                 => probe.result.width = 200 /\ probe.result.height = 100

\* C20: the client gets isfixed from updatesizehints; applysizehints returns
\* width 200 and height 100 for every requested rectangle when the client is
\* floating, and for a tiled client the requested width and height, raised to
\* at least 1 and global_bar_height.
C20_FixedSizeWhenFloating ==
    FixedSizeHints
        => /\ probe.client.isfixed
           /\ probe.fn = "applysizehints"
                 => IF probe.client.isfloating
                    THEN probe.result.width = 200 /\ probe.result.height = 100
                    ELSE /\ probe.result.width
                              = Maximum(global_bar_height, Maximum(1, probe.args.width))
                         /\ probe.result.height
                              = Maximum(global_bar_height, Maximum(1, probe.args.height))

\* applysizehints has answered for a tiled client with fixed-size hints and
\* for a request that is not 200 wide
C20_Witness ==
    /\ FixedSizeHints
    /\ probe.fn = "applysizehints"
    /\ ~probe.client.isfloating
    /\ probe.args.width = 250
    /\ probe.result.width = 250

\* C21: applysizehints never yields a degenerate size: for every hint set
\* without aspect limits and every requested rectangle, the width and the
\* height it returns are both at least 1.
C21_SizeAtLeastOne ==
    probe.fn = "applysizehints"
        => probe.result.width >= 1 /\ probe.result.height >= 1

\* C23: detachstack(c) unlinks c from its monitor's focus stack.  When c is
\* the monitor's selected client, the selected client becomes the first
\* client of the remaining stack that is visible under the monitor's
\* selected tags, or none if no visible client remains; when c is not the
\* selected client the selection is unchanged.
C23_DetachstackSelectsNextVisible ==
    probe.fn = "detachstack" =>
        LET c      == probe.client
            m      == probe.before.cl[c].monitor
            before == probe.before.mon[m]
            after  == probe.after.mon[m]
            rest   == Remove(before.stack, c)
            shown  == { i \in 1..Len(rest) : IsVisible(probe.before, rest[i]) }
        IN /\ after.stack = rest
           /\ IF before.selected_client = c
              THEN IF shown = {}
                   THEN after.selected_client = NoClient
                   ELSE \E i \in shown :
                          /\ after.selected_client = rest[i]
                          /\ \A j \in shown : i <= j
              ELSE after.selected_client = before.selected_client

\* the selected client was unlinked, the head of what is left is hidden and
\* the client behind it is visible and became the selected client
C23_Witness ==
    /\ probe.fn = "detachstack"
    /\ probe.before.mon[0].selected_client = probe.client
    /\ Len(probe.after.mon[0].stack) = 2
    /\ ~IsVisible(probe.before, probe.after.mon[0].stack[1])
    /\ probe.after.mon[0].selected_client = probe.after.mon[0].stack[2]

\* C22: after updategeom every valid monitor's window rectangle follows from
\* its screen rectangle and its bar settings: window_x = screen_x,
\* window_width = screen_width, window_height = screen_height less the bar
\* height when the bar is shown, and window_y = screen_y plus the bar height
\* when the bar is shown at the top (screen_y otherwise).
C22_WindowRectangleFromScreenAndBar ==
    probe.fn = "updategeom" =>
        \A i \in DOMAIN probe.after.mon :
            LET m == probe.after.mon[i]
            IN m.is_valid =>
                 /\ m.window_x = m.screen_x
                 /\ m.window_width = m.screen_width
                 /\ m.window_height = IF m.showbar
                                      THEN m.screen_height - global_bar_height
                                      ELSE m.screen_height
                 /\ m.window_y = IF m.showbar /\ m.topbar
                                 THEN m.screen_y + global_bar_height
                                 ELSE m.screen_y

\* updategeom has set up a monitor for a second screen, its bar at the top
C22_Witness ==
    /\ probe.fn = "updategeom"
    /\ probe.result # 0
    /\ \E i \in DOMAIN probe.after.mon :
          /\ probe.after.mon[i].is_valid
          /\ ~(i \in DOMAIN probe.before.mon /\ probe.before.mon[i].is_valid)
          /\ probe.after.mon[i].screen_x = ScreenW
          /\ probe.after.mon[i].showbar /\ probe.after.mon[i].topbar
          /\ probe.after.mon[i].window_height = ScreenH - global_bar_height

C25_SpawnResetsMode ==
    [][ /\ (probe'.fn = "keypress" /\ probe'.func \in SpawnAndReset) =>
              /\ mode_stack_top' = 0
              /\ mode_stack'[mode_stack_top'] = ModeNormal
        /\ (probe.fn = "keypress" /\ probe.func \in SpawnAndReset
            /\ probe'.fn = "keypress") =>
              /\ probe'.mode = ModeNormal
              /\ \/ probe'.index = 0
                 \/ probe'.func = normal_mode_keys[probe'.index].func ]_vars

\* spawn_surf was dispatched in the surf mode: the stack is back at its base
\* frame, the frame the mode was pushed on is still in the array
C25_Witness ==
    /\ probe.fn = "keypress"
    /\ probe.func = "spawn_surf"
    /\ probe.mode = ModeSurfBrowser
    /\ mode_stack_top = 0
    /\ mode_stack[mode_stack_top] = ModeNormal
    /\ mode_stack[1] = ModeSurfBrowser

\* C26: a map request creates no client when the window is override-redirect
\* or is already managed, so in every reachable state (after updategeom has
\* removed monitors too) no two managed clients refer to the same window.
C26_OneClientPerWindow ==
    \A c, d \in Managed :
        clients[c].window = clients[d].window => c = d

\* C27: manage gives a new client the monitor and the tags of its transient
\* parent when that parent is a managed client; otherwise it gives it the
\* selected monitor and that monitor's selected tags.
C27_ManageInheritsFromParent ==
    [][ \A c \in ClientIds :
          (~clients[c].managed /\ clients'[c].managed
           /\ probe'.fn = "manage" /\ probe'.client = c) =>
             LET parents == { t \in Managed : /\ probe'.trans # None
                                              /\ clients[t].window = probe'.trans }
             IN IF parents # {}
                THEN \E t \in parents :
                        /\ clients'[c].monitor = clients[t].monitor
                        /\ clients'[c].tags = clients[t].tags
                ELSE /\ clients'[c].monitor = selected_monitor
                     /\ clients'[c].tags = all_monitors[selected_monitor].selected_tags
      ]_vars

\* a transient window was mapped while another monitor was selected: it sits
\* on its parent's monitor with its parent's tags, which are not the tags
\* selected there
C27_Witness ==
    /\ probe.fn = "manage"
    /\ probe.trans # None
    /\ clients[probe.client].managed
    /\ \E t \in Managed :
          /\ t # probe.client
          /\ clients[t].window = probe.trans
          /\ clients[t].monitor = clients[probe.client].monitor
          /\ clients[t].monitor # selected_monitor
          /\ clients[t].tags = clients[probe.client].tags
          /\ clients[t].tags # all_monitors[clients[t].monitor].selected_tags

\* C28: a new window that is neither transient, fixed-size nor a dialog and
\* is managed on the selected monitor is put at the head of the membership
\* list: after manage it is the first visible non-floating client (the tiled
\* master) and the monitor's focused client.
C28_NewWindowIsMaster ==
    [][ \A c \in ClientIds :
          (/\ ~clients[c].managed /\ clients'[c].managed
           /\ probe'.fn = "manage" /\ probe'.client = c
           /\ probe'.trans = None /\ ~probe'.isfixed /\ ~probe'.dialog
           /\ clients'[c].monitor = selected_monitor') =>
              /\ Head(all_monitors'[selected_monitor'].clients) = c
              /\ nexttiled(World', all_monitors'[selected_monitor'].clients) = c
              /\ all_monitors'[selected_monitor'].selected_client = c
      ]_vars

\* C28, for a window that does not ask for the fullscreen state either: after
\* manage it is at the head of the membership list, it is the first visible
\* non-floating client and it is the monitor's focused client.
C28_NewPlainWindowIsMaster ==
    [][ \A c \in ClientIds :
          (/\ ~clients[c].managed /\ clients'[c].managed
           /\ probe'.fn = "manage" /\ probe'.client = c
           /\ probe'.trans = None /\ ~probe'.isfixed /\ ~probe'.dialog
           /\ ~probe'.fullscreen
           /\ clients'[c].monitor = selected_monitor') =>
              /\ Head(all_monitors'[selected_monitor'].clients) = c
              /\ nexttiled(World', all_monitors'[selected_monitor'].clients) = c
              /\ all_monitors'[selected_monitor'].selected_client = c
      ]_vars

\* a plain window was mapped on a monitor that had a client: it is the head of
\* the list, in front of the older client, it is tiled and it is focused
C28_Witness ==
    /\ probe.fn = "manage"
    /\ probe.trans = None /\ ~probe.isfixed /\ ~probe.dialog /\ ~probe.fullscreen
    /\ Len(all_monitors[selected_monitor].clients) = 2
    /\ Head(all_monitors[selected_monitor].clients) = probe.client
    /\ nexttiled(World, all_monitors[selected_monitor].clients) = probe.client
    /\ all_monitors[selected_monitor].selected_client = probe.client

\* C29: each monitor's selected_layout is always 0 (tile) or 1 (monocle);
\* toggle_layout flips the selected monitor's layout between the two and
\* leaves every other monitor's layout unchanged, and two consecutive toggles
\* restore the original layout.
C29_ToggleLayoutFlipsSelectedOnly ==
    [][ /\ \A m \in Slots :
             /\ all_monitors[m].selected_layout \in {tile_index, monocle_index}
             /\ all_monitors'[m].selected_layout \in {tile_index, monocle_index}
        /\ (last_op' = "toggle_layout" /\ crashed' = "no") =>
             /\ all_monitors[selected_monitor].selected_layout = tile_index
                  => all_monitors'[selected_monitor].selected_layout = monocle_index
             /\ all_monitors[selected_monitor].selected_layout = monocle_index
                  => all_monitors'[selected_monitor].selected_layout = tile_index
             /\ \A m \in Slots \ {selected_monitor} :
                   all_monitors'[m].selected_layout = all_monitors[m].selected_layout
        /\ toggle_layout(toggle_layout(World)).mon = all_monitors ]_vars

\* two monitors, the selected one in monocle and the other in tile
C29_Witness ==
    /\ last_op = "toggle_layout"
    /\ Cardinality(ValidMonitors(World)) = 2
    /\ all_monitors[selected_monitor].selected_layout = monocle_index
    /\ \E m \in ValidMonitors(World) :
          m # selected_monitor /\ all_monitors[m].selected_layout = tile_index

\* C30: every valid monitor's master fraction is within [5, 95] percent in
\* every reachable state: setmfact applies the increment only when the
\* result is within that range, and otherwise leaves mfact unchanged and does
\* not re-arrange.
C30_MfactWithinRange ==
    [][ /\ \A m \in ValidMonitors(World) :
             all_monitors[m].mfact >= 5 /\ all_monitors[m].mfact <= 95
        /\ \A m \in 0..(monitor_capacity' - 1) :
             all_monitors'[m].is_valid =>
                 all_monitors'[m].mfact >= 5 /\ all_monitors'[m].mfact <= 95
        /\ (last_op' = "setmfact" /\ crashed' = "no" /\ probe'.fn = "setmfact") =>
             LET new_fact == all_monitors[selected_monitor].mfact + probe'.i
             IN IF new_fact >= 5 /\ new_fact <= 95
                THEN /\ all_monitors'[selected_monitor].mfact = new_fact
                     /\ probe'.arranged
                ELSE /\ all_monitors' = all_monitors
                     /\ ~probe'.arranged ]_vars

\* setmfact was asked to go below 5 percent and did nothing
C30_Witness ==
    /\ last_op = "setmfact"
    /\ probe.fn = "setmfact"
    /\ probe.i < 0
    /\ ~probe.arranged
    /\ all_monitors[selected_monitor].mfact = 5

\* C31: movemouse and resizemouse leave their inner event loop on the first
\* ButtonRelease they read and on no other event: configure requests, map
\* requests, expose and motion events (throttled ones included) never end
\* the drag.
C31_DragEndsOnButtonRelease ==
    [][ (probe.fn \in {"movemouse", "resizemouse"} /\ probe.running
         /\ probe'.fn = probe.fn) =>
           (probe'.running <=> probe'.ev.type # "ButtonRelease") ]_vars

\* a drag has read a throttled motion event after a map request was handled
\* inside its loop, and is still running
C31_Witness ==
    /\ probe.fn = "movemouse"
    /\ probe.running
    /\ probe.ev.type = "MotionNotify" /\ probe.ev.throttled
    /\ \E c \in Managed : c # probe.client

\* C33: during an interactive move or resize, map requests and configure
\* requests handled inside the drag loop included, the only client whose
\* floating flag the drag changes is the client that was selected when the
\* drag started.
C33_DragTouchesOnlyItsClient ==
    [][ (probe.fn \in {"movemouse", "resizemouse"} /\ probe.running
         /\ probe'.fn = probe.fn /\ crashed' = "no") =>
           \A c \in Managed :
               c # probe.client => clients'[c].isfloating = clients[c].isfloating
      ]_vars


\* C32: in every reachable state the client focused on the selected monitor
\* is not marked urgent.
C32_FocusedClientNotUrgent ==
    crashed = "no" =>
        LET c == all_monitors[selected_monitor].selected_client
        IN c # NoClient => ~clients[c].isurgent


\* C34: setfullscreen(c, 1) followed later by setfullscreen(c, 0) restores
\* the floating flag, the border width and, for a client that was floating,
\* the rectangle c had immediately before it entered fullscreen, whatever
\* root ConfigureNotify and ConfigureRequest events came in between.
C34_FullscreenRoundTripRestores ==
    (probe.fn = "setfullscreen" /\ probe.phase = "restored") =>
        /\ probe.client.isfloating = probe.before.isfloating
        /\ probe.client.border_width = probe.before.border_width
        /\ probe.before.isfloating =>
              /\ probe.client.x = probe.before.x
              /\ probe.client.y = probe.before.y
              /\ probe.client.width = probe.before.width
              /\ probe.client.height = probe.before.height


\* C35: for every valid monitor, selected or not, selected_client is none or
\* a client visible under that monitor's selected tags.
C35_SelectedClientVisible ==
    crashed = "no" =>
        \A i \in ValidMonitors(World) :
            LET c == all_monitors[i].selected_client
            IN c # NoClient =>
                  BitAnd(clients[c].tags, all_monitors[i].selected_tags) # 0


\* C36: no dangling selection.  Each monitor's selected_client is none or a
\* client in that same monitor's focus stack; and when a step takes a client
\* c off a monitor (unmanage(c), or sendmon(c, m) to another monitor), that
\* monitor's membership list, focus stack and selected_client no longer
\* refer to c.
C36_NoDanglingSelection ==
    [][ crashed' = "no" =>
          /\ \A s \in Slots :
                \/ all_monitors'[s].selected_client = NoClient
                \/ all_monitors'[s].selected_client \in SeqSet(all_monitors'[s].stack)
          /\ \A c \in Managed :
                (~clients'[c].managed \/ clients'[c].monitor # clients[c].monitor) =>
                    LET left == all_monitors'[clients[c].monitor]
                    IN /\ c \notin SeqSet(left.clients)
                       /\ c \notin SeqSet(left.stack)
                       /\ left.selected_client # c ]_vars

\* sendmon took the selected client off the selected monitor, which holds a
\* second client: the client is visible on its new monitor without being
\* selected there, and the monitor it left has selected the other client
C36_Witness ==
    /\ crashed = "no"
    /\ \E c \in Managed :
          /\ clients[c].monitor # selected_monitor
          /\ all_monitors[clients[c].monitor].is_valid
          /\ IsVisible(World, c)
          /\ c \in SeqSet(all_monitors[clients[c].monitor].stack)
          /\ all_monitors[clients[c].monitor].selected_client = NoClient
          /\ all_monitors[selected_monitor].selected_client \notin {NoClient, c}

\* the rectangle of a client with its border: left, top, right, bottom
Outer(c) ==
    [left |-> c.x, top |-> c.y,
     right |-> c.x + c.width + 2 * c.border_width,
     bottom |-> c.y + c.height + 2 * c.border_width]

InsideWindow(m, r) ==
    /\ r.left >= m.window_x /\ r.right <= m.window_x + m.window_width
    /\ r.top >= m.window_y /\ r.bottom <= m.window_y + m.window_height
    /\ r.left <= r.right /\ r.top <= r.bottom

Apart(a, b) ==
    \/ a.right <= b.left \/ b.right <= a.left
    \/ a.bottom <= b.top \/ b.bottom <= a.top

\* C37: after tile with N >= 2 tiled clients the rectangles of the clients,
\* borders included, lie inside the monitor's window rectangle and no two of
\* them overlap, for every N and every window height.
C37_TilesInsideAndApart ==
    (probe.fn = "tile" /\ probe.arranged) =>
        /\ \A i \in DOMAIN probe.clients :
              InsideWindow(probe.monitor, Outer(probe.clients[i]))
        /\ \A i, j \in DOMAIN probe.clients :
              i # j => Apart(Outer(probe.clients[i]), Outer(probe.clients[j]))


\* C38: when tagmon/sendmon moves a client c to a different valid monitor m,
\* c is afterwards in the membership list and the focus stack of m and of no
\* other monitor, its tags are m's selected tags, and every other client has
\* the tags, the monitor and the list memberships it had, the membership
\* lists keeping their order.
C38_SendmonMovesOneClient ==
    [][ crashed' = "no" =>
          \A c \in Managed :
              (clients'[c].managed /\ clients'[c].monitor # clients[c].monitor) =>
                  /\ InClients(all_monitors', c) = {clients'[c].monitor}
                  /\ InStack(all_monitors', c) = {clients'[c].monitor}
                  /\ clients'[c].tags = all_monitors'[clients'[c].monitor].selected_tags
                  /\ IsVisible(World', c)
                  /\ \A d \in Managed \ {c} :
                        /\ clients'[d].tags = clients[d].tags
                        /\ clients'[d].monitor = clients[d].monitor
                        /\ InClients(all_monitors', d) = InClients(all_monitors, d)
                        /\ InStack(all_monitors', d) = InStack(all_monitors, d)
                  /\ \A s \in Slots :
                        Remove(all_monitors'[s].clients, c) = Remove(all_monitors[s].clients, c)
      ]_vars

\* a client sent to a monitor that shows other tags than the monitor it left,
\* where a second client stayed behind
C38_Witness ==
    /\ crashed = "no"
    /\ \E c, d \in Managed :
          /\ c # d
          /\ clients[c].monitor # selected_monitor
          /\ clients[d].monitor = selected_monitor
          /\ all_monitors[clients[c].monitor].selected_client = NoClient
          /\ clients[c].tags = all_monitors[clients[c].monitor].selected_tags
          /\ clients[c].tags # all_monitors[selected_monitor].selected_tags
          /\ clients[d].tags = all_monitors[selected_monitor].selected_tags


\* the visible non-floating clients of the selected monitor
TiledOnSelected ==
    { c \in SeqSet(all_monitors[selected_monitor].clients) :
         ~clients[c].isfloating /\ IsVisible(World, c) }

\* C39: make_main_client with a tiled selected client and at least two
\* visible tiled clients on the selected monitor leaves the master (the first
\* visible tiled client of the membership list) focused: the selected client
\* if it was not the master, otherwise the tiled client after it.  With a
\* floating selected client, or a tiled one that is the only tiled client,
\* the monitor table is left as it was.
C39_MakeMainClient ==
    [][ (probe' # probe /\ probe'.fn = "make_main_client" /\ crashed' = "no") =>
          LET m  == all_monitors[selected_monitor]
              sc == m.selected_client
          IN sc # NoClient =>
               /\ (~clients[sc].isfloating /\ Cardinality(TiledOnSelected) >= 2) =>
                     /\ selected_monitor' = selected_monitor
                     /\ all_monitors'[selected_monitor].selected_client
                           = nexttiled(World', all_monitors'[selected_monitor].clients)
                     /\ all_monitors'[selected_monitor].selected_client
                           = IF sc # nexttiled(World, m.clients) THEN sc
                             ELSE nexttiled(World, After(m.clients, sc))
               /\ (clients[sc].isfloating \/ TiledOnSelected = {sc}) =>
                     /\ all_monitors' = all_monitors
                     /\ selected_monitor' = selected_monitor
      ]_vars


\* the key was pressed a second time and the selected monitor shows two tiled
\* clients, the selected one in the master position
C39_Witness ==
    /\ crashed = "no"
    /\ probe.fn = "make_main_client" /\ probe.press = 1
    /\ Cardinality(TiledOnSelected) = 2
    /\ all_monitors[selected_monitor].selected_client
          = nexttiled(World, all_monitors[selected_monitor].clients)

\* the slot k steps from sel in direction dir, going around the table
Around(p, k) == (p.sel + k * (IF p.dir > 0 THEN 1 ELSE -1) + k * p.cap) % p.cap

\* the nearest valid slot in direction dir; the selected one after a full turn
Nearest(p) ==
    Around(p, CHOOSE k \in 1..p.cap :
                 /\ Around(p, k) \in p.valid
                 /\ \A j \in 1..(k - 1) : Around(p, j) \notin p.valid)

\* C40: with a valid selected monitor, dirtomon(dir) terminates and returns
\* the index of a valid monitor inside the table: the nearest valid slot in
\* direction dir going around the table, the selected monitor itself when no
\* other slot is valid.
C40_DirtomonTerminates ==
    (probe.fn = "dirtomon" /\ probe.pc = "loop")
        ~> (/\ probe.fn = "dirtomon" /\ probe.pc = "return"
            /\ probe.monitor_index \in 0..(probe.cap - 1)
            /\ probe.monitor_index \in probe.valid
            /\ probe.monitor_index = Nearest(probe))

\* dirtomon returned after passing over two slots that are not valid and
\* wrapping around the end of the table
C40_Witness ==
    /\ probe.fn = "dirtomon" /\ probe.pc = "return"
    /\ probe.cap = MaxSlots /\ probe.dir > 0
    /\ probe.sel = 2 /\ probe.valid = {1, 2}
    /\ probe.monitor_index = 1

====
